---- MODULE Spec2Model ----
(***************************************************************************)
(* Model of sphinx-matlab's object builder (Script, Function, Method,       *)
(* Classdef), its docstring assembler and its attribute parser.            *)
(*                                                                         *)
(* Text is a sequence of one-character strings, so that slicing, splitting *)
(* and stripping are computed as the Python code computes them.  The token *)
(* tree handed to a constructor is read one child at a time: each action   *)
(* draws the next child from a small set and `children` records the        *)
(* children consumed so far.                                               *)
(***************************************************************************)
EXTENDS Integers, Sequences, FiniteSets, TLC

VARIABLES
    kind,             \* the constructor that runs: Script, Function, Method, Classdef
    token,            \* element.token of the node handed to the constructor
    pc,               \* position of the constructor
    budget,           \* number of tokens of the element not yet read
    declaration,      \* the declaration child, once read
    children,         \* the other children read so far, in document order
    local_name,       \* self.local_name
    input,            \* self.input   (OrderedDict)
    options,          \* self.options (dict, insertion ordered)
    output,           \* self.output  (OrderedDict)
    docstring_lines,  \* local docstring_lines of the running constructor
    doc,              \* self._doc
    attributes,       \* ArgumentAttributes of the argument block being read
    arg,              \* pending property declaration of the argument block
    arg_doc_parts,    \* comment lines collected for the pending property
    method_attributes,\* MethodAttributes handed to Method.__init__
    classdef,         \* the owning Classdef of a Method (its local_name)
    class_attributes, \* Classdef._attributes
    error,            \* the exception that ended the constructor, or "none"
    cls,              \* Attributes.from_dict: the variant it is called on
    settings,         \* Attributes.from_dict: the raw modifier map
    result,           \* Attributes.from_dict: what the call produced
    properties,       \* Classdef.properties
    prop,             \* pending property declaration of the property block
    prop_doc_parts,   \* comment lines collected for the pending property
    property_attributes, \* PropertyAttributes of the property block being read
    enumeration,      \* Classdef.enumeration
    enum_name,        \* name of the enum member being read
    enum_value,       \* value text of the enum member being read
    enum_doc_parts,   \* comment lines collected for the enum member being read
    methods,          \* Classdef.methods
    methods_attributes, \* MethodAttributes of the method block being read
    config,           \* the Config handed to doc
    rendered,         \* what doc returned
    app_config,       \* app.config: the host-configured value of every option
    overrides,        \* the overrides handed to load_config
    values,           \* load_config: the local values
    field,            \* load_config: position of the loop over the config fields
    warnings,         \* the subtypes of the warnings logged by warn_sphinx
    workspace_node,   \* FunctionRenderer.run: what workspace.find_symbol returned
    nodes             \* FunctionRenderer.run: the node list it returned

\* The state of a Classdef's property, enum and method blocks.
class_members == << properties, prop, prop_doc_parts, property_attributes,
                    enumeration, enum_name, enum_value, enum_doc_parts,
                    methods, methods_attributes >>

\* The state of a call of doc.
rendering == << config, rendered >>

\* The state of a run of the directive and of its call of load_config.
directive == << app_config, overrides, values, field, warnings, workspace_node, nodes >>

vars == << kind, token, pc, budget, declaration, children, local_name, input,
           options, output, docstring_lines, doc, attributes, arg,
           arg_doc_parts, method_attributes, classdef, class_attributes,
           error, cls, settings, result, class_members, rendering, directive >>

(***************************************************************************)
(* Bounds                                                                  *)
(***************************************************************************)
\* Tokens of one element that a build reads (parameters, comments, blocks, properties).
MaxTokens == 4
\* Entries of a raw modifier map handed to Attributes.from_dict.
MaxSettings == 2
\* Lines of a sequence handed to parse_comment_docstring.
MaxLines == 2
\* Characters of one such line.
MaxLineLen == 3

(***************************************************************************)
(* Text helpers (Python str operations)                                    *)
(***************************************************************************)
\* str.isspace() on one character
IsSpace(c) == c \in {" ", "\t", "\n"}

\* s[n:]
Drop(s, n) == SubSeq(s, n + 1, Len(s))

\* s[:n]
Take(s, n) == SubSeq(s, 1, IF n < Len(s) THEN n ELSE Len(s))

\* line.isspace() or not line
IsBlank(s) == \A i \in 1..Len(s) : IsSpace(s[i])

\* len(line) - len(line.lstrip())
LStripLen(s) ==
    IF IsBlank(s) THEN Len(s)
    ELSE (CHOOSE i \in 1..Len(s) : ~IsSpace(s[i]) /\ \A j \in 1..(i - 1) : IsSpace(s[j])) - 1

LStrip(s) == Drop(s, LStripLen(s))

RStrip(s) ==
    IF IsBlank(s) THEN << >>
    ELSE Take(s, CHOOSE i \in 1..Len(s) : ~IsSpace(s[i]) /\ \A j \in (i + 1)..Len(s) : IsSpace(s[j]))

Strip(s) == LStrip(RStrip(s))

\* s.index(pat), 0-based; -1 stands for the ValueError of a missing pattern
Index(s, pat) ==
    LET hits == {i \in 0..(Len(s) - Len(pat)) : SubSeq(s, i + 1, i + Len(pat)) = pat}
    IN  IF hits = {} THEN -1 ELSE CHOOSE i \in hits : \A j \in hits : i <= j

\* s.split(sep) for a one-character separator
RECURSIVE Split(_, _)
Split(s, sep) ==
    LET i == Index(s, <<sep>>)
    IN  IF i = -1 THEN << s >>
        ELSE << Take(s, i) >> \o Split(Drop(s, i + 1), sep)

RECURSIVE Concat(_)
Concat(ss) == IF ss = << >> THEN << >> ELSE Head(ss) \o Concat(Tail(ss))

Min(S) == CHOOSE x \in S : \A y \in S : x <= y

\* The value standing for a raised exception where a string is expected.
Raised(e) == << e >>

(***************************************************************************)
(* Docstring assembler                                                     *)
(***************************************************************************)
append_comment(content, lines) ==
    Append(lines, Drop(content, Index(content, <<"%">>) + 1))

append_section_comment(content, lines) ==
    Append(lines, Drop(content, Index(content, <<"%", "%">>) + 2))

append_block_comment(content) ==
    LET bracket == Index(content, <<"%", "{">>) + 2
        begin   == Index(Drop(content, bracket), <<"\n">>) + bracket + 1
    IN  Split(SubSeq(content, begin + 1, Index(content, <<"%", "}">>)), "\n")

\* Mutant of parse_comment_docstring: the trailing whitespace of a line is kept.
parse_comment_docstring_keeping_trailing(lines) ==
    IF lines = << >> THEN << >>
    ELSE
      LET padding == [i \in 1..Len(lines) |-> LStripLen(lines[i])]
          pads    == {padding[i] : i \in {j \in 1..Len(lines) : ~IsBlank(lines[j])}}
      IN  IF pads = {} THEN Raised("ValueError")
          ELSE
            LET indent == Min(pads)
                cut    == [i \in 1..Len(lines) |->
                             IF Len(lines[i]) >= padding[i]
                             THEN Drop(lines[i], indent) ELSE lines[i]]
                piece  == [i \in 1..Len(lines) |->
                             IF IsBlank(cut[i]) THEN << "\n" >>
                             ELSE cut[i] \o << " " >>]
            IN  Strip(Concat(piece))

\* Mutant of parse_comment_docstring: nothing is trimmed at the end of a line or
\* at the end of the result.
parse_comment_docstring_untrimmed(lines) ==
    IF lines = << >> THEN << >>
    ELSE
      LET padding == [i \in 1..Len(lines) |-> LStripLen(lines[i])]
          pads    == {padding[i] : i \in {j \in 1..Len(lines) : ~IsBlank(lines[j])}}
      IN  IF pads = {} THEN Raised("ValueError")
          ELSE
            LET indent == Min(pads)
                cut    == [i \in 1..Len(lines) |->
                             IF Len(lines[i]) >= padding[i]
                             THEN Drop(lines[i], indent) ELSE lines[i]]
                piece  == [i \in 1..Len(lines) |->
                             IF IsBlank(cut[i]) THEN << "\n" >>
                             ELSE cut[i] \o << " " >>]
            IN  LStrip(Concat(piece))

parse_comment_docstring(lines) ==
    IF lines = << >> THEN << >>
    ELSE
      LET padding == [i \in 1..Len(lines) |-> LStripLen(lines[i])]
          pads    == {padding[i] : i \in {j \in 1..Len(lines) : ~IsBlank(lines[j])}}
      IN  IF pads = {} THEN Raised("ValueError")
          ELSE
            LET indent == Min(pads)
                cut    == [i \in 1..Len(lines) |->
                             IF Len(lines[i]) >= padding[i]
                             THEN Drop(lines[i], indent) ELSE lines[i]]
                piece  == [i \in 1..Len(lines) |->
                             IF IsBlank(cut[i]) THEN << "\n" >>
                             ELSE RStrip(cut[i]) \o << " " >>]
            IN  Strip(Concat(piece))

(***************************************************************************)
(* Ordered mappings (OrderedDict / dict): a sequence of [key, value]       *)
(***************************************************************************)
Keys(d) == [i \in 1..Len(d) |-> d[i].key]

KeySet(d) == {d[i].key : i \in 1..Len(d)}

Has(d, k) == k \in KeySet(d)

Get(d, k) == (CHOOSE e \in {d[i] : i \in 1..Len(d)} : e.key = k).value

\* Mutant of SetItem: an existing key is deleted and inserted anew, at the end.
SetItem_moves_to_end(d, k, v) ==
    LET keep(e) == e.key # k
    IN  Append(SelectSeq(d, keep), [key |-> k, value |-> v])

\* d[k] = v : an existing key keeps its position, a new key is appended
SetItem(d, k, v) ==
    IF Has(d, k)
    THEN [i \in 1..Len(d) |-> IF d[i].key = k THEN [key |-> k, value |-> v] ELSE d[i]]
    ELSE Append(d, [key |-> k, value |-> v])

\* Mutant of Pop: the key is looked up but never removed.
Pop_keeps(d, k) == d

\* d.pop(k, None)
Pop(d, k) ==
    LET keep(e) == e.key # k
    IN  SelectSeq(d, keep)

\* d.popitem(last=False) on a non-empty mapping
PopFirst(d) == Tail(d)

SeqsUpTo(S, n) == UNION {[1..k -> S] : k \in 0..n}

(***************************************************************************)
(* Token view: what the tokenizer can hand to the builder                  *)
(***************************************************************************)
Kinds == {"Script", "Function", "Method", "Classdef", "Property"}

NodeTokens == {"source.matlab", "meta.function.matlab", "meta.class.matlab",
               "meta.assignment.definition.property.matlab"}

\* Mutant of TextmateToken: no constructor expects a token.
TextmateToken_unset(k) == ""

\* _textmate_token of each constructor
TextmateToken(k) ==
    CASE k = "Script"   -> ""
      [] k = "Function" -> "meta.function.matlab"
      [] k = "Method"   -> "meta.function.matlab"
      [] k = "Classdef" -> "meta.class.matlab"
      [] k = "Property" -> "meta.assignment.definition.property.matlab"

\* variable.parameter.input.matlab / variable.parameter.output.matlab contents
InNames  == {<<"a">>, <<"p">>}
OutNames == {<<"a">>, <<"r">>}

\* entity.name.function.matlab contents; "C" is also the name of the class
FunctionNames(k) == IF k = "Method" THEN {"f", "C"} ELSE {"f"}
ClassName == "C"

\* names of the property declarations of an argument block
ArgNames == {<<"a">>, <<"p">>, <<"p", ".", "f">>, <<"a", ".", "g">>}

\* storage.modifier.arguments.matlab contents of an argument block
ArgModifiers == {<< >>, <<"Output">>, <<"Input">>}

\* comment.line.percentage.matlab contents
LineComments == {<<"%", " ", "x">>}

\* comment.line.double-percentage.matlab contents
SectionComments == {<<"%", "%", " ", "z">>}

\* comment.block.percentage.matlab contents
BlockComments ==
    { <<"%", "{", "\n", " ", " ", "u", "\n", " ", "v", "\n", "%", "}">>,
      <<"%", "{", "\n", "w", "\n", "%", "}">> }

\* A child consumed by the builder.
Child(tok, content, mods) == [tok |-> tok, content |-> content, mods |-> mods]

NoDeclaration == [name |-> "", inputs |-> << >>, outputs |-> << >>, comment |-> << >>]

(***************************************************************************)
(* Attribute records                                                       *)
(***************************************************************************)
ArgumentFields == {"Output", "Repeating"}

\* ArgumentAttributes(**modifiers) with modifiers = {m.content: True}
ArgumentAttributes(mods) ==
    IF \E i \in 1..Len(mods) : mods[i] \notin ArgumentFields
    THEN [raised |-> "TypeError", Output |-> FALSE, Repeating |-> FALSE]
    ELSE [raised |-> "none",
          Output    |-> \E i \in 1..Len(mods) : mods[i] = "Output",
          Repeating |-> \E i \in 1..Len(mods) : mods[i] = "Repeating"]

NoAttributes == [raised |-> "none", Output |-> FALSE, Repeating |-> FALSE]

(***************************************************************************)
(* Property and the members of a Function                                  *)
(***************************************************************************)
\* A name-only placeholder of input/output: the str stored by the declaration.
Placeholder(name) ==
    [kind |-> "str", name |-> name, element |-> 0, doc |-> << >>,
     type |-> << >>, default |-> << >>, attributes |-> NoAttributes]

\* A property declaration element: its name (element.begin[0].content), its
\* storage.type.matlab content and the tokens of element.end.
NoArg == [id |-> 0, content |-> << >>, type |-> << >>, end |-> << >>]

EndAssignment == [tok |-> "keyword.operator.assignment.matlab", content |-> <<"=">>]
EndValue(text) == [tok |-> "constant.numeric.decimal.matlab", content |-> text]
EndComment(text) == [tok |-> "comment.line.percentage.matlab", content |-> text]

\* findall("*", stop_tokens=_COMMENT_TOKENS, attribute="end", depth=1)
default_elements(end) ==
    LET comments == {i \in 1..Len(end) : end[i].tok = "comment.line.percentage.matlab"}
    IN  IF comments = {} THEN end ELSE SubSeq(end, 1, Min(comments) - 1)

\* self.default
property_default(end) ==
    LET els == default_elements(end)
    IN  IF els # << >> /\ els[1].tok = "keyword.operator.assignment.matlab"
        THEN Concat([i \in 1..(Len(els) - 1) |-> els[i + 1].content])
        ELSE << >>

\* The lines self._doc is assembled from.
property_lines(end, lines) ==
    IF end # << >>
    THEN LET isComment(e) == e.tok = "comment.line.percentage.matlab"
             doc_elements == SelectSeq(end, isComment)
             own == [i \in 1..Len(doc_elements) |-> Drop(doc_elements[i].content, 1)]
         IN  IF lines # << >> THEN own \o << << >> >> \o lines ELSE own
    ELSE lines

\* Property.__init__
Property(element, attrs, lines) ==
    [kind |-> "Property", name |-> element.content, element |-> element.id,
     doc |-> parse_comment_docstring(property_lines(element.end, lines)),
     type |-> element.type, default |-> property_default(element.end),
     attributes |-> attrs]

\* The property declarations of an argument block: `a`, `p int8 = 1 % d`,
\* `p.f = 2`, `a.g char`
ArgDeclarations ==
    { [content |-> <<"a">>, type |-> << >>, end |-> << >>],
      [content |-> <<"p">>, type |-> <<"i", "n", "t", "8">>,
       end |-> << EndAssignment, EndValue(<<"1">>), EndComment(<<"%", " ", "d">>) >>],
      [content |-> <<"p", ".", "f">>, type |-> << >>,
       end |-> << EndAssignment, EndValue(<<"2">>) >>],
      [content |-> <<"a", ".", "g">>, type |-> <<"c", "h", "a", "r">>, end |-> << >>] }

\* Mutant of add_argument: the dotted branch forgets to pop the root from input.
add_argument_keeps_root(self, arg_item, attrs, lines) ==
    LET built == Property(arg_item, attrs, lines)
    IN  IF attrs.Output
        THEN [self EXCEPT !.output = SetItem(self.output, built.name, built)]
        ELSE IF Index(built.name, <<".">>) # -1
             THEN LET parts   == Split(built.name, ".")
                      renamed == [built EXCEPT !.name = parts[2]]
                  IN  [self EXCEPT !.options = SetItem(self.options, renamed.name, renamed)]
             ELSE [self EXCEPT !.input = SetItem(self.input, built.name, built)]

\* Mutant of add_argument: the dotted test comes before the Output test.
add_argument_dotted_first(self, arg_item, attrs, lines) ==
    LET built == Property(arg_item, attrs, lines)
    IN  IF Index(built.name, <<".">>) # -1
        THEN LET parts   == Split(built.name, ".")
                 renamed == [built EXCEPT !.name = parts[2]]
             IN  [self EXCEPT !.input   = Pop(self.input, parts[1]),
                              !.options = SetItem(self.options, renamed.name, renamed)]
        ELSE IF attrs.Output
             THEN [self EXCEPT !.output = SetItem(self.output, built.name, built)]
             ELSE [self EXCEPT !.input = SetItem(self.input, built.name, built)]

\* Mutant of add_argument: a dotted name whose root is not a key of input is
\* dropped instead of being registered in options.
add_argument_requires_root(self, arg_item, attrs, lines) ==
    LET built == Property(arg_item, attrs, lines)
    IN  IF attrs.Output
        THEN [self EXCEPT !.output = SetItem(self.output, built.name, built)]
        ELSE IF Index(built.name, <<".">>) # -1
             THEN LET parts   == Split(built.name, ".")
                      renamed == [built EXCEPT !.name = parts[2]]
                  IN  IF ~Has(self.input, parts[1]) THEN self
                      ELSE [self EXCEPT !.input   = Pop(self.input, parts[1]),
                                        !.options = SetItem(self.options, renamed.name, renamed)]
             ELSE [self EXCEPT !.input = SetItem(self.input, built.name, built)]

\* Function._add_argument; self is the record of input, options and output
add_argument(self, arg_item, attrs, lines) ==
    LET built == Property(arg_item, attrs, lines)
    IN  IF attrs.Output
        THEN [self EXCEPT !.output = SetItem(self.output, built.name, built)]
        ELSE IF Index(built.name, <<".">>) # -1
             THEN LET parts   == Split(built.name, ".")
                      renamed == [built EXCEPT !.name = parts[2]]
                  IN  [self EXCEPT !.input   = Pop(self.input, parts[1]),
                                   !.options = SetItem(self.options, renamed.name, renamed)]
             ELSE [self EXCEPT !.input = SetItem(self.input, built.name, built)]

Self == [input |-> input, options |-> options, output |-> output]

\* Mutant of DeclareAll: every parameter token is appended, repeated or not.
DeclareAll_appending(d, names) ==
    d \o [i \in 1..Len(names) |-> [key |-> names[i], value |-> Placeholder(names[i])]]

\* The declaration's loop over its parameter tokens.
RECURSIVE DeclareAll(_, _)
DeclareAll(d, names) ==
    IF names = << >> THEN d
    ELSE DeclareAll(SetItem(d, Head(names), Placeholder(Head(names))), Tail(names))

(***************************************************************************)
(* Attribute parser (attributes.py)                                        *)
(*                                                                         *)
(* A raw or coerced value is [ty, val]: ty is the Python type ("none",     *)
(* "bool", "str", "int") and val the value's text.                         *)
(***************************************************************************)
PyNone     == [ty |-> "none", val |-> "None"]
PyBool(b)  == [ty |-> "bool", val |-> IF b THEN "True" ELSE "False"]
PyStr(s)   == [ty |-> "str",  val |-> s]
PyInt(s)   == [ty |-> "int",  val |-> s]

Variants == {"ArgumentAttributes", "PropertyAttributes", "ClassdefAttributes"}

\* The fields of MethodAttributes, the record Method.__init__ reads Static from:
\* flags Static and Hidden, and the access level Access.
MethodFields == {"Static", "Hidden", "Access"}

\* cls.__annotations__ : field name -> annotation.__qualname__
Annotations(c) ==
    CASE c = "ArgumentAttributes" ->
           [f \in {"Output", "Repeating"} |-> "bool"]
      [] c = "PropertyAttributes" ->
           [f \in {"Abortset", "Abstract", "Access", "Constant", "Dependent",
                   "GetAccess", "Hidden", "NonCopyable", "PartialMatchPriority",
                   "SetAccess", "SetObservable", "Transient"} |->
              IF f \in {"Access", "GetAccess", "SetAccess"} THEN "str"
              ELSE IF f = "PartialMatchPriority" THEN "int" ELSE "bool"]
      [] c = "ClassdefAttributes" ->
           [f \in {"Abstract", "AllowedSubclasses", "ConstructOnLoad",
                   "HandleCompatible", "Hidden", "InferiorClasses", "Sealed"} |->
              IF f \in {"AllowedSubclasses", "InferiorClasses"} THEN "str" ELSE "bool"]
      [] c = "MethodAttributes" ->
           [f \in MethodFields |-> IF f = "Access" THEN "str" ELSE "bool"]

\* The declared default of every annotated field.
Defaults(c) ==
    [f \in DOMAIN Annotations(c) |->
        CASE Annotations(c)[f] = "bool" -> PyBool(FALSE)
          [] Annotations(c)[f] = "int"  -> PyInt("1")
          [] Annotations(c)[f] = "str"  ->
               IF c \in {"PropertyAttributes", "MethodAttributes"}
               THEN PyStr("public") ELSE PyStr("")]

\* Whether the class is a @dataclass, i.e. has an __init__ taking its fields.
IsDataclass(c) == c \in {"ArgumentAttributes", "PropertyAttributes", "MethodAttributes"}

\* value in ["True", "true", "t", 1]  (Python ==, so True == 1)
InTrueList(v) ==
    \/ v.ty = "str" /\ v.val \in {"True", "true", "t"}
    \/ v.ty = "int" /\ v.val = "1"
    \/ v.ty = "bool" /\ v.val = "True"

Digits == {"0", "1", "2", "3", "4", "5", "6", "7", "8", "9"}

\* The texts int() reads as a base-10 integer, and the integer each stands for
\* (leading zeros do not count).
IntValue == [t \in Digits \cup {"07"} |-> IF t = "07" THEN "7" ELSE t]

\* Mutant of ParseInt: a text that is no integer gives the default 1 instead of an error.
ParseInt_defaulting(v) ==
    CASE v.ty = "int"  -> [raised |-> "none", value |-> v]
      [] v.ty = "bool" -> [raised |-> "none", value |-> PyInt(IF v.val = "True" THEN "1" ELSE "0")]
      [] v.ty = "str"  -> IF v.val \in DOMAIN IntValue
                          THEN [raised |-> "none", value |-> PyInt(IntValue[v.val])]
                          ELSE [raised |-> "none", value |-> PyInt("1")]
      [] OTHER         -> [raised |-> "TypeError", value |-> v]

\* int(value): [raised, value]
ParseInt(v) ==
    CASE v.ty = "int"  -> [raised |-> "none", value |-> v]
      [] v.ty = "bool" -> [raised |-> "none", value |-> PyInt(IF v.val = "True" THEN "1" ELSE "0")]
      [] v.ty = "str"  -> IF v.val \in DOMAIN IntValue
                          THEN [raised |-> "none", value |-> PyInt(IntValue[v.val])]
                          ELSE [raised |-> "ValueError", value |-> v]
      [] OTHER         -> [raised |-> "TypeError", value |-> v]

\* One iteration of the loop of from_dict: [raised, value]
Coerce(c, key, value) ==
    IF value = PyNone THEN [raised |-> "none", value |-> PyBool(TRUE)]
    ELSE IF key \notin DOMAIN Annotations(c)
    THEN [raised |-> "AttributeError", value |-> value]
    ELSE CASE Annotations(c)[key] = "bool" ->
                [raised |-> "none", value |-> PyBool(InTrueList(value))]
           [] Annotations(c)[key] = "int"  -> ParseInt(value)
           [] OTHER -> [raised |-> "none", value |-> value]

\* The loop of from_dict over settings.items(): the coerced map, or the first exception
RECURSIVE CoerceAll(_, _, _)
CoerceAll(c, s, i) ==
    IF i > Len(s) THEN [raised |-> "none", settings |-> s]
    ELSE LET r == Coerce(c, s[i].key, s[i].value)
         IN  IF r.raised # "none" THEN [raised |-> r.raised, settings |-> s]
             ELSE CoerceAll(c, [s EXCEPT ![i].value = r.value], i + 1)

\* cls(**settings): [raised, fields]
Construct(c, s) ==
    IF \/ ~IsDataclass(c) /\ s # << >>
       \/ \E i \in 1..Len(s) : s[i].key \notin DOMAIN Annotations(c)
    THEN [raised |-> "TypeError", fields |-> Defaults(c)]
    ELSE [raised |-> "none",
          fields |-> [f \in DOMAIN Annotations(c) |->
                        IF Has(s, f) THEN Get(s, f) ELSE Defaults(c)[f]]]

\* Attributes.from_dict
from_dict(c, s) ==
    LET coerced == CoerceAll(c, s, 1)
    IN  IF coerced.raised # "none"
        THEN [raised |-> coerced.raised, fields |-> Defaults(c)]
        ELSE Construct(c, coerced.settings)

\* Raw modifier maps: keys and values the builders and tests can hand over.
RawKeys == {"Hidden", "Output", "Access", "PartialMatchPriority", "Foo"}

RawValues == {PyNone, PyBool(TRUE), PyStr("True"), PyStr("true"), PyStr("t"), PyInt("1"),
              PyStr("false"), PyStr("5"), PyStr("07")}

RawMaps ==
    {m \in SeqsUpTo([key : RawKeys, value : RawValues], MaxSettings) :
        \A i, j \in 1..Len(m) : i # j => m[i].key # m[j].key}

NoResult == [raised |-> "unset", fields |-> << >>]

(***************************************************************************)
(* Object builder: the constructors, one action per step                   *)
(***************************************************************************)
\* A token of a modifier list.
Modifier(name) == [tok |-> "storage.modifier", content |-> name]
Assignment     == [tok |-> "keyword.operator.assignment.matlab", content |-> "="]
Comma          == [tok |-> "punctuation.separator.modifier.comma.matlab", content |-> ","]
Value(text)    == [tok |-> "value", content |-> text]

\* current_value += content, for the values of one token that the lists below hold
PlusContent(current_value, content) ==
    IF current_value = PyStr("") THEN PyStr(content) ELSE current_value

\* The scan of the parenthesized list of a class declaration: the raw modifier map.
RECURSIVE class_modifier_scan(_, _, _, _)
class_modifier_scan(items, modifiers, current_modifier, current_value) ==
    IF items = << >>
    THEN IF current_modifier # ""
         THEN SetItem(modifiers, current_modifier, current_value)
         ELSE modifiers
    ELSE LET item == Head(items)
         IN  CASE item.tok = "storage.modifier" ->
                    class_modifier_scan(Tail(items), modifiers, item.content, current_value)
               [] item.tok = "keyword.operator.assignment.matlab" ->
                    class_modifier_scan(Tail(items), modifiers, current_modifier, PyStr(""))
               [] item.tok = "punctuation.separator.modifier.comma.matlab" ->
                    class_modifier_scan(Tail(items),
                                        SetItem(modifiers, current_modifier, current_value),
                                        current_modifier, PyBool(TRUE))
               [] OTHER ->
                    class_modifier_scan(Tail(items), modifiers, current_modifier,
                                        PlusContent(current_value, item.content))

\* The parenthesized lists of a class declaration: none, (Hidden), (Hidden, Sealed),
\* (Sealed = true)
ClassModifierLists ==
    { << >>,
      << Modifier("Hidden") >>,
      << Modifier("Hidden"), Comma, Modifier("Sealed") >>,
      << Modifier("Sealed"), Assignment, Value("true") >> }

\* The scan of the modifier list of a properties block: the raw modifier map.
RECURSIVE property_modifier_scan(_, _, _, _)
property_modifier_scan(items, modifiers, current_modifier, current_value) ==
    IF items = << >>
    THEN IF current_modifier # ""
         THEN SetItem(modifiers, current_modifier, current_value)
         ELSE modifiers
    ELSE LET item == Head(items)
         IN  CASE item.tok = "storage.modifier" ->
                    IF current_modifier # ""
                    THEN property_modifier_scan(Tail(items),
                                                SetItem(modifiers, current_modifier, current_value),
                                                item.content, PyBool(TRUE))
                    ELSE property_modifier_scan(Tail(items), modifiers, item.content,
                                                current_value)
               [] item.tok = "keyword.operator.assignment.matlab" ->
                    property_modifier_scan(Tail(items), modifiers, current_modifier, PyStr(""))
               [] OTHER ->
                    property_modifier_scan(Tail(items), modifiers, current_modifier,
                                           PlusContent(current_value, item.content))

\* The modifier lists of a properties block: none, (Access = private),
\* (GetAccess = private)
PropertyModifierLists ==
    { << >>,
      << Modifier("Access"), Assignment, Value("private") >>,
      << Modifier("GetAccess"), Assignment, Value("private") >> }

\* The property declarations of a properties block: `X`, `Y = 1`
ClassPropertyDeclarations ==
    { [content |-> <<"X">>, type |-> << >>, end |-> << >>],
      [content |-> <<"Y">>, type |-> << >>,
       end |-> << EndAssignment, EndValue(<<"1">>) >>] }

\* A storage.modifier.access.matlab token of a modifier list.
AccessValue(text) == [tok |-> "storage.modifier.access.matlab", content |-> text]

\* The scan of the modifier list of a methods block, over the modifier-name and
\* access-level tokens that findall returns: the raw modifier map.
RECURSIVE method_modifier_scan(_, _, _, _)
method_modifier_scan(items, modifiers, current_modifier, current_value) ==
    IF items = << >>
    THEN IF current_modifier # ""
         THEN SetItem(modifiers, current_modifier, current_value)
         ELSE modifiers
    ELSE LET item == Head(items)
         IN  CASE item.tok = "storage.modifier" ->
                    IF current_modifier # ""
                    THEN method_modifier_scan(Tail(items),
                                              SetItem(modifiers, current_modifier, current_value),
                                              item.content, PyBool(TRUE))
                    ELSE method_modifier_scan(Tail(items), modifiers, item.content,
                                              current_value)
               [] item.tok = "storage.modifier.access.matlab" ->
                    method_modifier_scan(Tail(items), modifiers, current_modifier,
                                         PyStr(item.content))
               [] OTHER ->
                    method_modifier_scan(Tail(items), modifiers, current_modifier,
                                         current_value)

\* The modifier lists of a methods block: none, (Static), (Static = false),
\* (Access = private, Static)
MethodModifierLists ==
    { << >>,
      << Modifier("Static") >>,
      << Modifier("Static"), Assignment, Value("false") >>,
      << Modifier("Access"), Assignment, AccessValue("private"), Comma,
         Modifier("Static") >> }

\* The meta.function.matlab children of a methods block: `f(a)`, `f(a)` with
\* the help line `% x`, the constructor `C(a)` without and with it, and `f()`
ClassMethodItems ==
    { [name |-> "f", inputs |-> << <<"a">> >>, comment |-> << >>],
      [name |-> "f", inputs |-> << <<"a">> >>, comment |-> <<"%", " ", "x">>],
      [name |-> "C", inputs |-> << <<"a">> >>, comment |-> << >>],
      [name |-> "C", inputs |-> << <<"a">> >>, comment |-> <<"%", " ", "x">>],
      [name |-> "f", inputs |-> << >>, comment |-> << >>] }

\* variable.other.enummember.matlab contents
EnumNames == {<<"R", "e", "d">>, <<"B", "l", "u", "e">>}

\* meta.parens.matlab contents of an enum member: the value with its parentheses
EnumParens == {<<"(", "1", ")">>, <<"(", "2", ")">>}

(***************************************************************************)
(* Rendering: doc(config).  The returned string is held as its text and    *)
(* the tables appended after it; a table is what was handed to tabulate,   *)
(* with the heading written before it.                                     *)
(***************************************************************************)
NoRendered == [text |-> << >>, tables |-> << >>]

\* The grave accent character (a TLA+ string cannot hold it).
Backtick == "backtick"

\* _codetick(renderer)
codetick(renderer) == IF renderer = "rst" THEN <<Backtick, Backtick>> ELSE <<Backtick>>

\* s.replace(old, new) for one-character old and new
Replace(s, old, new) == [i \in 1..Len(s) |-> IF s[i] = old THEN new ELSE s[i]]

\* c * n
Repeat(c, n) == [i \in 1..n |-> c]

\* A table cell holding None.
NoneCell == << "None" >>

TitleNameValuePairs ==
    <<"N", "a", "m", "e", "-", "v", "a", "l", "u", "e", " ", "p", "a", "i", "r", "s">>
TitleProperties == <<"P", "r", "o", "p", "e", "r", "t", "i", "e", "s">>
TitleEnumeration == <<"E", "n", "u", "m", "e", "r", "a", "t", "i", "o", "n">>

\* "\n\n" and the title line(s) written before a table
table_heading(title, renderer) ==
    <<"\n", "\n">> \o
    (IF renderer = "rst"
     THEN title \o <<"\n">> \o Repeat("-", Len(title)) \o <<"\n">>
     ELSE <<"#", "#", " ">> \o title \o <<"\n">>)

\* tabulate(table, headers=headers, tablefmt=...)
tabulate(table, headers, renderer) ==
    [rows |-> table, headers |-> headers,
     tablefmt |-> IF renderer # "rst" THEN "github" ELSE "rst"]

\* One row of append_validation_table
validation_row(name, arg_item, renderer) ==
    << name,
       IF arg_item.type # << >> THEN arg_item.type ELSE NoneCell,
       IF arg_item.doc # << >> THEN Replace(arg_item.doc, "\n", " ") ELSE NoneCell,
       IF arg_item.default # << >>
       THEN codetick(renderer) \o arg_item.default \o codetick(renderer)
       ELSE NoneCell >>

append_validation_table(validation_table, docstring, renderer, title) ==
    LET table == [i \in 1..Len(validation_table) |->
                    validation_row(validation_table[i].key, validation_table[i].value,
                                   renderer)]
    IN  [text |-> docstring.text,
         tables |-> Append(docstring.tables,
                           [heading |-> table_heading(title, renderer),
                            table |-> tabulate(table, <<"name", "type", "doc", "default">>,
                                               renderer)])]

append_enum_table(enum_table, docstring, renderer, title) ==
    LET table == [i \in 1..Len(enum_table) |->
                    << enum_table[i].key,
                       IF enum_table[i].value.value # << >>
                       THEN codetick(renderer) \o enum_table[i].value.value
                              \o codetick(renderer)
                       ELSE NoneCell,
                       IF enum_table[i].value.doc # << >>
                       THEN enum_table[i].value.doc ELSE NoneCell >>]
    IN  [text |-> docstring.text,
         tables |-> Append(docstring.tables,
                           [heading |-> table_heading(title, renderer),
                            table |-> tabulate(table, <<"name", "value", "doc">>,
                                               renderer)])]

\* Mutant of param_entry: the Defaults to suffix is written for an empty default too.
param_entry_always_default(arg_item, tick) ==
    IF arg_item.kind = "str"
    THEN <<"\n", ":", "p", "a", "r", "a", "m", " ">> \o arg_item.name \o <<":">>
    ELSE <<"\n", ":", "p", "a", "r", "a", "m", " ">> \o arg_item.type
           \o <<" ">> \o arg_item.name \o <<":", " ">>
           \o Replace(arg_item.doc, "\n", " ")
           \o <<" ", "D", "e", "f", "a", "u", "l", "t", "s", " ", "t", "o", " ">>
           \o tick \o arg_item.default \o tick

\* What Function.doc writes for one value of input
param_entry(arg_item, tick) ==
    IF arg_item.kind = "str"
    THEN <<"\n", ":", "p", "a", "r", "a", "m", " ">> \o arg_item.name \o <<":">>
    ELSE <<"\n", ":", "p", "a", "r", "a", "m", " ">> \o arg_item.type
           \o <<" ">> \o arg_item.name \o <<":", " ">>
           \o Replace(arg_item.doc, "\n", " ")
           \o (IF arg_item.default # << >>
               THEN <<" ", "D", "e", "f", "a", "u", "l", "t", "s", " ", "t", "o", " ">>
                      \o tick \o arg_item.default \o tick
               ELSE << >>)

\* Function.doc
function_doc(self_doc, self_input, self_options, cfg) ==
    LET tick == IF cfg.render_plugin = "rst" THEN <<Backtick, Backtick>> ELSE <<Backtick>>
    IN  IF ~cfg.argument_block_parameters
        THEN [text |-> self_doc, tables |-> << >>]
        ELSE LET docstring ==
                   [text |-> self_doc
                               \o (IF self_input # << >> THEN <<"\n">> ELSE << >>)
                               \o Concat([i \in 1..Len(self_input) |->
                                            param_entry(self_input[i].value, tick)]),
                    tables |-> << >>]
             IN  IF cfg.argument_options_table /\ self_options # << >>
                 THEN append_validation_table(self_options, docstring,
                                              cfg.render_plugin, TitleNameValuePairs)
                 ELSE docstring

\* The properties Classdef.doc lists
public_properties(props) ==
    LET public(e) == \/ e.value.attributes.fields.Access = PyStr("public")
                     \/ e.value.attributes.fields.GetAccess = PyStr("public")
    IN  SelectSeq(props, public)

\* Mutant of classdef_doc: the constructor's doc replaces the class's own doc.
classdef_doc_replacing(self_doc, self_local_name, self_methods, self_enumeration, self_properties, cfg) ==
    LET constructor_docstring ==
            function_doc(Get(self_methods, self_local_name).doc,
                         Get(self_methods, self_local_name).input,
                         Get(self_methods, self_local_name).options, cfg)
        merged   == IF cfg.class_docstring = "merge" /\ Has(self_methods, self_local_name)
                    THEN [text |-> constructor_docstring.text,
                          tables |-> constructor_docstring.tables]
                    ELSE [text |-> self_doc, tables |-> << >>]
        withEnum == IF self_enumeration # << >>
                    THEN append_enum_table(self_enumeration, merged, cfg.render_plugin,
                                           TitleEnumeration)
                    ELSE merged
    IN  IF cfg.class_properties_table /\ public_properties(self_properties) # << >>
        THEN append_validation_table(public_properties(self_properties), withEnum,
                                     cfg.render_plugin, TitleProperties)
        ELSE withEnum

\* Classdef.doc
classdef_doc(self_doc, self_local_name, self_methods, self_enumeration, self_properties, cfg) ==
    LET constructor_docstring ==
            function_doc(Get(self_methods, self_local_name).doc,
                         Get(self_methods, self_local_name).input,
                         Get(self_methods, self_local_name).options, cfg)
        merged   == IF cfg.class_docstring = "merge" /\ Has(self_methods, self_local_name)
                    THEN [text |-> self_doc
                                     \o (IF self_doc # << >>
                                            /\ constructor_docstring.text # << >>
                                         THEN <<"\n", "\n">> ELSE << >>)
                                     \o constructor_docstring.text,
                          tables |-> constructor_docstring.tables]
                    ELSE [text |-> self_doc, tables |-> << >>]
        withEnum == IF self_enumeration # << >>
                    THEN append_enum_table(self_enumeration, merged, cfg.render_plugin,
                                           TitleEnumeration)
                    ELSE merged
    IN  IF cfg.class_properties_table /\ public_properties(self_properties) # << >>
        THEN append_validation_table(public_properties(self_properties), withEnum,
                                     cfg.render_plugin, TitleProperties)
        ELSE withEnum

\* _load_renderer, the sphinx_validate of render_plugin: the renderer class that
\* load_config stores for a format name
load_renderer(item) == IF item = "rst" THEN "RstRenderer" ELSE "MystRenderer"

\* The values of Config.render_plugin: a format name given to Config(...) by
\* hand, or the renderer class stored by load_config
Renderers == {"rst", "md"} \cup {load_renderer(item) : item \in {"rst", "md"}}

\* The Configs handed to Function.doc, to Classdef.doc and to Script.doc
FunctionConfigs ==
    [render_plugin : Renderers, argument_block_parameters : BOOLEAN,
     argument_options_table : BOOLEAN, class_docstring : {"merge"},
     class_properties_table : {TRUE}]

ClassConfigs ==
    [render_plugin : {"rst", load_renderer("md")}, argument_block_parameters : {TRUE},
     argument_options_table : {TRUE}, class_docstring : {"merge", "both"},
     class_properties_table : BOOLEAN]

ScriptConfigs ==
    [render_plugin : {"rst"}, argument_block_parameters : {TRUE},
     argument_options_table : {TRUE}, class_docstring : {"merge"},
     class_properties_table : {TRUE}]

\* The Config options doc reads.
NoConfig ==
    [render_plugin |-> "none", argument_block_parameters |-> TRUE,
     argument_options_table |-> TRUE, class_docstring |-> "merge",
     class_properties_table |-> TRUE]

\* meta.class.declaration.matlab contents, without and with a trailing comment
ClassDeclarations == {<<"C">>, <<"C", " ", "%", " ", "t">>}

Raise(e) ==
    /\ pc' = "error"
    /\ error' = e

BuildInit ==
    /\ kind \in Kinds
    /\ token \in NodeTokens
    /\ pc = "new"
    /\ budget = MaxTokens
    /\ declaration = NoDeclaration
    /\ children = << >>
    /\ local_name = ""
    /\ input = << >>
    /\ options = << >>
    /\ output = << >>
    /\ docstring_lines = << >>
    /\ doc = << >>
    /\ attributes = NoAttributes
    /\ arg \in IF kind = "Property"
               THEN {[id |-> 1, content |-> d.content, type |-> d.type, end |-> d.end] :
                       d \in ArgDeclarations \cup ClassPropertyDeclarations}
               ELSE {NoArg}
    /\ arg_doc_parts = << >>
    /\ method_attributes = [Static |-> FALSE]
    /\ classdef = IF kind = "Method" THEN ClassName ELSE ""
    /\ class_attributes = NoResult
    /\ error = "none"
    /\ cls = "none"
    /\ settings = << >>
    /\ result = NoResult
    /\ properties = << >>
    /\ prop = NoArg
    /\ prop_doc_parts = << >>
    /\ property_attributes = NoResult
    /\ enumeration = << >>
    /\ enum_name = << >>
    /\ enum_value = << >>
    /\ enum_doc_parts = << >>
    /\ methods = << >>
    /\ methods_attributes = NoResult
    /\ app_config = << >>
    /\ overrides = << >>
    /\ values = << >>
    /\ field = 0
    /\ warnings = << >>
    /\ workspace_node = "unset"
    /\ nodes = "unset"
    /\ config = NoConfig
    /\ rendered = NoRendered

\* MatObject.validate_token, the first statement of every constructor
ValidateToken ==
    /\ pc = "new"
    /\ IF TextmateToken(kind) # "" /\ TextmateToken(kind) # token
       THEN Raise("ValueError")
       ELSE /\ pc' = IF kind = "Script" THEN "children" ELSE "declaration"
            /\ error' = error
    /\ UNCHANGED << class_members, rendering >>
    /\ UNCHANGED << kind, token, budget, declaration, children, local_name, input,
                    options, output, docstring_lines, doc, attributes, arg,
                    arg_doc_parts, method_attributes, classdef, class_attributes,
                    cls, settings, result >>
    /\ UNCHANGED directive

Read(child) == children' = Append(children, child)

----------------------------------------------------------------------------
\* Property.__init__ called on the element arg, without docstring_lines;
\* self.name is held in local_name

PropertyBuild ==
    /\ kind = "Property" /\ pc = "declaration"
    /\ LET built == Property(arg, NoAttributes, << >>)
       IN  IF built.doc = Raised("ValueError")
           THEN Raise("ValueError") /\ UNCHANGED << doc, local_name >>
           ELSE /\ doc' = built.doc
                /\ local_name' = built.name
                /\ pc' = "built"
                /\ error' = error
    /\ UNCHANGED << class_members, rendering >>
    /\ UNCHANGED << kind, token, budget, declaration, children, input, options,
                    output, docstring_lines, attributes, arg, arg_doc_parts,
                    method_attributes, classdef, class_attributes, cls, settings,
                    result >>
    /\ UNCHANGED directive

----------------------------------------------------------------------------
\* Script.__init__

ScriptLineComment ==
    /\ kind = "Script" /\ pc = "children" /\ budget > 0
    /\ \E c \in LineComments :
         /\ docstring_lines' = append_comment(c, docstring_lines)
         /\ Read(Child("comment.line.percentage.matlab", c, << >>))
    /\ budget' = budget - 1
    /\ UNCHANGED << class_members, rendering >>
    /\ UNCHANGED << kind, token, pc, declaration, local_name, input, options,
                    output, doc, attributes, arg, arg_doc_parts, method_attributes,
                    classdef, class_attributes, error, cls, settings, result >>
    /\ UNCHANGED directive

ScriptSectionComment ==
    /\ kind = "Script" /\ pc = "children" /\ budget > 0
    /\ \E c \in SectionComments :
         /\ docstring_lines' = append_section_comment(c, docstring_lines)
         /\ Read(Child("comment.line.double-percentage.matlab", c, << >>))
    /\ budget' = budget - 1
    /\ UNCHANGED << class_members, rendering >>
    /\ UNCHANGED << kind, token, pc, declaration, local_name, input, options,
                    output, doc, attributes, arg, arg_doc_parts, method_attributes,
                    classdef, class_attributes, error, cls, settings, result >>
    /\ UNCHANGED directive

\* the lines Script.__init__ takes from a block comment (its own copy of the slicing)
script_block_lines(content) ==
    LET bracket == Index(content, <<"%", "{">>) + 2
        begin   == Index(Drop(content, bracket), <<"\n">>) + bracket + 1
    IN  Split(SubSeq(content, begin + 1, Index(content, <<"%", "}">>)), "\n")

\* Mutant of script_scans_on: the break after a block comment is missing.
script_scans_on_always == TRUE

\* whether the scan of Script.__init__ goes on after a block comment (the break)
script_scans_on == FALSE

ScriptBlockComment ==
    /\ kind = "Script" /\ pc = "children" /\ budget > 0
    /\ \E c \in BlockComments :
         /\ docstring_lines' = script_block_lines(c)
         /\ Read(Child("comment.block.percentage.matlab", c, << >>))
    /\ budget' = budget - 1
    /\ pc' = IF script_scans_on THEN "children" ELSE "assemble"
    /\ UNCHANGED << class_members, rendering >>
    /\ UNCHANGED << kind, token, declaration, local_name, input, options,
                    output, doc, attributes, arg, arg_doc_parts, method_attributes,
                    classdef, class_attributes, error, cls, settings, result >>
    /\ UNCHANGED directive

\* find(_COMMENT_TOKENS, stop_tokens="*", depth=1) ends: a child that is no
\* comment is met, or there is no further child
ScriptStop ==
    /\ kind = "Script" /\ pc = "children"
    /\ \/ budget > 0 /\ budget' = budget - 1
          /\ Read(Child("other", << >>, << >>))
       \/ UNCHANGED << budget, children >>
    /\ pc' = "assemble"
    /\ UNCHANGED << class_members, rendering >>
    /\ UNCHANGED << kind, token, declaration, local_name, input, options, output,
                    docstring_lines, doc, attributes, arg, arg_doc_parts,
                    method_attributes, classdef, class_attributes, error, cls,
                    settings, result >>
    /\ UNCHANGED directive

ScriptFinish ==
    /\ kind = "Script" /\ pc = "assemble"
    /\ LET d == parse_comment_docstring(docstring_lines)
       IN  IF d = Raised("ValueError")
           THEN Raise("ValueError") /\ doc' = doc
           ELSE pc' = "built" /\ doc' = d /\ error' = error
    /\ UNCHANGED << class_members, rendering >>
    /\ UNCHANGED << kind, token, budget, declaration, children, local_name, input,
                    options, output, docstring_lines, attributes, arg,
                    arg_doc_parts, method_attributes, classdef, class_attributes,
                    cls, settings, result >>
    /\ UNCHANGED directive

----------------------------------------------------------------------------
\* Function._process_elements (also run by Method.__init__)

IsFunction == kind \in {"Function", "Method"}

\* The elements drawn have their comment children before their first argument
\* block (the help text of a function precedes its arguments blocks).
NoArgumentsYet == \A i \in 1..Len(children) : children[i].tok # "meta.arguments.matlab"

\* meta.function.declaration.matlab
FunctionDeclaration ==
    /\ IsFunction /\ pc = "declaration"
    /\ \E name \in FunctionNames(kind), ins \in SeqsUpTo(InNames, budget) :
         \E outs \in SeqsUpTo(OutNames, budget - Len(ins)) :
           /\ local_name' = name
           /\ input' = DeclareAll(input, ins)
           /\ output' = DeclareAll(output, outs)
           /\ declaration' = [name |-> name, inputs |-> ins, outputs |-> outs,
                              comment |-> << >>]
           /\ budget' = budget - Len(ins) - Len(outs)
    /\ pc' = "children"
    /\ UNCHANGED << class_members, rendering >>
    /\ UNCHANGED << kind, token, children, options, docstring_lines, doc,
                    attributes, arg, arg_doc_parts, method_attributes, classdef,
                    class_attributes, error, cls, settings, result >>
    /\ UNCHANGED directive

\* comment.block.percentage.matlab
FunctionBlockComment ==
    /\ IsFunction /\ pc = "children" /\ budget > 0 /\ NoArgumentsYet
    /\ \E c \in BlockComments :
         /\ docstring_lines' = append_block_comment(c)
         /\ Read(Child("comment.block.percentage.matlab", c, << >>))
    /\ budget' = budget - 1
    /\ UNCHANGED << class_members, rendering >>
    /\ UNCHANGED << kind, token, pc, declaration, local_name, input, options,
                    output, doc, attributes, arg, arg_doc_parts, method_attributes,
                    classdef, class_attributes, error, cls, settings, result >>
    /\ UNCHANGED directive

\* comment.line.percentage.matlab
FunctionLineComment ==
    /\ IsFunction /\ pc = "children" /\ budget > 0 /\ NoArgumentsYet
    /\ \E c \in LineComments :
         /\ docstring_lines' = append_comment(c, docstring_lines)
         /\ Read(Child("comment.line.percentage.matlab", c, << >>))
    /\ budget' = budget - 1
    /\ UNCHANGED << class_members, rendering >>
    /\ UNCHANGED << kind, token, pc, declaration, local_name, input, options,
                    output, doc, attributes, arg, arg_doc_parts, method_attributes,
                    classdef, class_attributes, error, cls, settings, result >>
    /\ UNCHANGED directive

\* comment.line.double-percentage.matlab
FunctionSectionComment ==
    /\ IsFunction /\ pc = "children" /\ budget > 0 /\ NoArgumentsYet
    /\ \E c \in SectionComments :
         /\ docstring_lines' = append_section_comment(c, docstring_lines)
         /\ Read(Child("comment.line.double-percentage.matlab", c, << >>))
    /\ budget' = budget - 1
    /\ UNCHANGED << class_members, rendering >>
    /\ UNCHANGED << kind, token, pc, declaration, local_name, input, options,
                    output, doc, attributes, arg, arg_doc_parts, method_attributes,
                    classdef, class_attributes, error, cls, settings, result >>
    /\ UNCHANGED directive

\* meta.arguments.matlab: the modifiers of the block, then its loop starts
ArgumentsBegin ==
    /\ IsFunction /\ pc = "children" /\ budget > 0
    /\ \E mods \in ArgModifiers :
         /\ Read(Child("meta.arguments.matlab", << >>, mods))
         /\ IF ArgumentAttributes(mods).raised # "none"
            THEN Raise(ArgumentAttributes(mods).raised) /\ attributes' = attributes
            ELSE /\ attributes' = ArgumentAttributes(mods)
                 /\ pc' = "arguments"
                 /\ error' = error
    /\ arg' = NoArg
    /\ arg_doc_parts' = << >>
    /\ budget' = budget - 1
    /\ UNCHANGED << class_members, rendering >>
    /\ UNCHANGED << kind, token, declaration, local_name, input, options, output,
                    docstring_lines, doc, method_attributes, classdef,
                    class_attributes, cls, settings, result >>
    /\ UNCHANGED directive

\* Mutant of AddPending: the pending property is built without its comment lines.
AddPending_dropping_comments ==
    IF arg = NoArg
    THEN UNCHANGED << input, options, output, error >> /\ pc' = pc
    ELSE LET self == add_argument(Self, arg, attributes, << >>)
         IN  /\ input' = self.input
             /\ options' = self.options
             /\ output' = self.output
             /\ pc' = pc
             /\ error' = error

\* self._add_argument(arg, attributes, arg_doc_parts), when a property is pending
AddPending ==
    IF arg = NoArg
    THEN UNCHANGED << input, options, output, error >> /\ pc' = pc
    ELSE IF Property(arg, attributes, arg_doc_parts).doc = Raised("ValueError")
    THEN Raise("ValueError") /\ UNCHANGED << input, options, output >>
    ELSE LET self == add_argument(Self, arg, attributes, arg_doc_parts)
         IN  /\ input' = self.input
             /\ options' = self.options
             /\ output' = self.output
             /\ pc' = pc
             /\ error' = error

\* meta.assignment.definition.property.matlab inside an argument block
ArgumentsProperty ==
    /\ IsFunction /\ pc = "arguments" /\ budget > 0
    /\ AddPending
    /\ \E d \in ArgDeclarations :
         /\ arg' = [id |-> Len(children) + 1, content |-> d.content,
                    type |-> d.type, end |-> d.end]
         /\ Read(Child("meta.assignment.definition.property.matlab", d.content, << >>))
    /\ arg_doc_parts' = << >>
    /\ budget' = budget - 1
    /\ UNCHANGED << class_members, rendering >>
    /\ UNCHANGED << kind, token, declaration, local_name, docstring_lines, doc,
                    attributes, method_attributes, classdef, class_attributes,
                    cls, settings, result >>
    /\ UNCHANGED directive

\* comment.line.percentage.matlab inside an argument block
ArgumentsComment ==
    /\ IsFunction /\ pc = "arguments" /\ budget > 0
    /\ \E c \in LineComments :
         /\ arg_doc_parts' = Append(arg_doc_parts, Drop(c, Index(c, <<"%">>) + 1))
         /\ Read(Child("comment.line.percentage.matlab", c, << >>))
    /\ budget' = budget - 1
    /\ UNCHANGED << class_members, rendering >>
    /\ UNCHANGED << kind, token, pc, declaration, local_name, input, options,
                    output, docstring_lines, doc, attributes, arg,
                    method_attributes, classdef, class_attributes, error, cls,
                    settings, result >>
    /\ UNCHANGED directive

\* the else branch of the loop over the argument block
ArgumentsEnd ==
    /\ IsFunction /\ pc = "arguments"
    /\ IF arg = NoArg
       THEN UNCHANGED << input, options, output, error, arg_doc_parts >>
            /\ pc' = "children"
       ELSE IF Property(arg, attributes, arg_doc_parts).doc = Raised("ValueError")
       THEN Raise("ValueError") /\ UNCHANGED << input, options, output, arg_doc_parts >>
       ELSE LET self == add_argument(Self, arg, attributes, arg_doc_parts)
            IN  /\ input' = self.input
                /\ options' = self.options
                /\ output' = self.output
                /\ arg_doc_parts' = << >>
                /\ pc' = "children"
                /\ error' = error
    /\ Read(Child("end", << >>, << >>))
    /\ UNCHANGED << class_members, rendering >>
    /\ UNCHANGED << kind, token, budget, declaration, local_name, docstring_lines,
                    doc, attributes, arg, method_attributes, classdef,
                    class_attributes, cls, settings, result >>
    /\ UNCHANGED directive

\* self._doc = parse_comment_docstring(docstring_lines)
FunctionFinish ==
    /\ IsFunction /\ pc = "children"
    /\ LET d == parse_comment_docstring(docstring_lines)
       IN  IF d = Raised("ValueError")
           THEN Raise("ValueError") /\ doc' = doc
           ELSE /\ pc' = IF kind = "Method" THEN "elide" ELSE "built"
                /\ doc' = d
                /\ error' = error
    /\ UNCHANGED << class_members, rendering >>
    /\ UNCHANGED << kind, token, budget, declaration, children, local_name, input,
                    options, output, docstring_lines, attributes, arg,
                    arg_doc_parts, method_attributes, classdef, class_attributes,
                    cls, settings, result >>
    /\ UNCHANGED directive

\* the condition under which Method.__init__ removes the first input
elides(name, class_name, static) == name # class_name \/ ~static

\* Method.__init__ after _process_elements; the MethodAttributes it was handed
\* are read here for the first time
MethodElide ==
    /\ kind = "Method" /\ pc = "elide"
    /\ \E static \in BOOLEAN :
         /\ method_attributes' = [Static |-> static]
         /\ IF elides(local_name, classdef, static)
            THEN IF input = << >>
                 THEN Raise("KeyError") /\ input' = input
                 ELSE input' = PopFirst(input) /\ pc' = "built" /\ error' = error
            ELSE input' = input /\ pc' = "built" /\ error' = error
    /\ UNCHANGED << class_members, rendering >>
    /\ UNCHANGED << kind, token, budget, declaration, children, local_name,
                    options, output, docstring_lines, doc, attributes, arg,
                    arg_doc_parts, classdef, class_attributes,
                    cls, settings, result >>
    /\ UNCHANGED directive

----------------------------------------------------------------------------
\* Classdef.__init__

\* meta.class.declaration.matlab
ClassDeclaration ==
    /\ kind = "Classdef" /\ pc = "declaration"
    /\ \E l \in ClassModifierLists, content \in ClassDeclarations :
         LET mods    == class_modifier_scan(l, << >>, "", PyBool(TRUE))
             attrs   == from_dict("ClassdefAttributes", mods)
             comment == IF Index(content, <<"%">>) = -1 THEN << >>
                        ELSE Drop(content, Index(content, <<"%">>) + 1)
         IN  /\ Len(mods) <= budget
             /\ budget' = budget - Len(mods)
             /\ declaration' = [name |-> ClassName, inputs |-> << >>,
                                outputs |-> << >>, comment |-> content,
                                modifiers |-> l]
             /\ cls' = "ClassdefAttributes"
             /\ settings' = mods
             /\ IF attrs.raised # "none"
                THEN /\ Raise(attrs.raised)
                     /\ UNCHANGED << class_attributes, local_name, docstring_lines >>
                ELSE /\ class_attributes' = attrs
                     /\ local_name' = ClassName
                     /\ docstring_lines' =
                          IF Index(content, <<"%">>) = -1 THEN docstring_lines
                          ELSE Append(docstring_lines, comment)
                     /\ pc' = "children"
                     /\ error' = error
    /\ UNCHANGED << class_members, rendering >>
    /\ UNCHANGED << kind, token, children, input, options, output, doc,
                    attributes, arg, arg_doc_parts, method_attributes, classdef,
                    result >>
    /\ UNCHANGED directive

\* comment.block.percentage.matlab
ClassBlockComment ==
    /\ kind = "Classdef" /\ pc = "children" /\ budget > 0
    /\ \E c \in BlockComments :
         /\ docstring_lines' = append_block_comment(c)
         /\ Read(Child("comment.block.percentage.matlab", c, << >>))
    /\ budget' = budget - 1
    /\ UNCHANGED << class_members, rendering >>
    /\ UNCHANGED << kind, token, pc, declaration, local_name, input, options,
                    output, doc, attributes, arg, arg_doc_parts, method_attributes,
                    classdef, class_attributes, error, cls, settings, result >>
    /\ UNCHANGED directive

\* comment.line.percentage.matlab
ClassLineComment ==
    /\ kind = "Classdef" /\ pc = "children" /\ budget > 0
    /\ \E c \in LineComments :
         /\ docstring_lines' = append_comment(c, docstring_lines)
         /\ Read(Child("comment.line.percentage.matlab", c, << >>))
    /\ budget' = budget - 1
    /\ UNCHANGED << class_members, rendering >>
    /\ UNCHANGED << kind, token, pc, declaration, local_name, input, options,
                    output, doc, attributes, arg, arg_doc_parts, method_attributes,
                    classdef, class_attributes, error, cls, settings, result >>
    /\ UNCHANGED directive

\* comment.line.double-percentage.matlab
ClassSectionComment ==
    /\ kind = "Classdef" /\ pc = "children" /\ budget > 0
    /\ \E c \in SectionComments :
         /\ docstring_lines' = append_section_comment(c, docstring_lines)
         /\ Read(Child("comment.line.double-percentage.matlab", c, << >>))
    /\ budget' = budget - 1
    /\ UNCHANGED << class_members, rendering >>
    /\ UNCHANGED << kind, token, pc, declaration, local_name, input, options,
                    output, doc, attributes, arg, arg_doc_parts, method_attributes,
                    classdef, class_attributes, error, cls, settings, result >>
    /\ UNCHANGED directive

\* meta.properties.matlab: the modifiers of the block, then its loop starts
PropertiesBegin ==
    /\ kind = "Classdef" /\ pc = "children" /\ budget > 0
    /\ \E l \in PropertyModifierLists :
         LET mods  == property_modifier_scan(l, << >>, "", PyBool(TRUE))
             attrs == from_dict("PropertyAttributes", mods)
         IN  /\ Read(Child("meta.properties.matlab", l, mods))
             /\ IF attrs.raised # "none"
                THEN Raise(attrs.raised) /\ property_attributes' = property_attributes
                ELSE /\ property_attributes' = attrs
                     /\ pc' = "properties"
                     /\ error' = error
    /\ prop' = NoArg
    /\ prop_doc_parts' = << >>
    /\ budget' = budget - 1
    /\ UNCHANGED << properties, enumeration, enum_name, enum_value, enum_doc_parts,
                    rendering,
                    methods, methods_attributes >>
    /\ UNCHANGED << kind, token, declaration, local_name, input, options, output,
                    docstring_lines, doc, attributes, arg, arg_doc_parts,
                    method_attributes, classdef, class_attributes, cls, settings,
                    result >>
    /\ UNCHANGED directive

\* Classdef._add_prop
add_prop(props, prop_item, attrs, lines) ==
    LET built == Property(prop_item, attrs, lines)
    IN  SetItem(props, built.name, built)

\* self._add_prop(prop, attributes, prop_doc_parts), when a property is pending
AddPendingProp ==
    IF prop = NoArg
    THEN UNCHANGED << properties, error >> /\ pc' = pc
    ELSE IF Property(prop, property_attributes, prop_doc_parts).doc = Raised("ValueError")
    THEN Raise("ValueError") /\ UNCHANGED properties
    ELSE /\ properties' = add_prop(properties, prop, property_attributes, prop_doc_parts)
         /\ pc' = pc
         /\ error' = error

\* meta.assignment.definition.property.matlab inside a properties block
PropertiesProperty ==
    /\ kind = "Classdef" /\ pc = "properties" /\ budget > 0
    /\ AddPendingProp
    /\ \E d \in ClassPropertyDeclarations :
         /\ prop' = [id |-> Len(children) + 1, content |-> d.content,
                     type |-> d.type, end |-> d.end]
         /\ Read(Child("meta.assignment.definition.property.matlab", d.content, << >>))
    /\ prop_doc_parts' = << >>
    /\ budget' = budget - 1
    /\ UNCHANGED << property_attributes, enumeration, enum_name, enum_value,
                    enum_doc_parts, rendering,
                    methods, methods_attributes >>
    /\ UNCHANGED << kind, token, declaration, local_name, input, options, output,
                    docstring_lines, doc, attributes, arg, arg_doc_parts,
                    method_attributes, classdef, class_attributes, cls, settings,
                    result >>
    /\ UNCHANGED directive

\* comment.line.percentage.matlab inside a properties block
PropertiesComment ==
    /\ kind = "Classdef" /\ pc = "properties" /\ budget > 0
    /\ \E c \in LineComments :
         /\ prop_doc_parts' = Append(prop_doc_parts, Drop(c, Index(c, <<"%">>) + 1))
         /\ Read(Child("comment.line.percentage.matlab", c, << >>))
    /\ budget' = budget - 1
    /\ UNCHANGED << properties, prop, property_attributes, enumeration, enum_name,
                    enum_value, enum_doc_parts, rendering,
                    methods, methods_attributes >>
    /\ UNCHANGED << kind, token, pc, declaration, local_name, input, options,
                    output, docstring_lines, doc, attributes, arg, arg_doc_parts,
                    method_attributes, classdef, class_attributes, error, cls,
                    settings, result >>
    /\ UNCHANGED directive

\* the else branch of the loop over the properties block
PropertiesEnd ==
    /\ kind = "Classdef" /\ pc = "properties"
    /\ IF prop = NoArg
       THEN UNCHANGED << properties, error, prop_doc_parts >> /\ pc' = "children"
       ELSE IF Property(prop, property_attributes, prop_doc_parts).doc = Raised("ValueError")
       THEN Raise("ValueError") /\ UNCHANGED << properties, prop_doc_parts >>
       ELSE /\ properties' = add_prop(properties, prop, property_attributes, prop_doc_parts)
            /\ prop_doc_parts' = << >>
            /\ pc' = "children"
            /\ error' = error
    /\ Read(Child("end", << >>, << >>))
    /\ UNCHANGED << prop, property_attributes, enumeration, enum_name, enum_value,
                    enum_doc_parts, rendering,
                    methods, methods_attributes >>
    /\ UNCHANGED << kind, token, budget, declaration, local_name, input, options,
                    output, docstring_lines, doc, attributes, arg, arg_doc_parts,
                    method_attributes, classdef, class_attributes, cls, settings,
                    result >>
    /\ UNCHANGED directive

\* meta.enum.matlab: the locals of the scan of an enum block
EnumBegin ==
    /\ kind = "Classdef" /\ pc = "children" /\ budget > 0
    /\ Read(Child("meta.enum.matlab", << >>, << >>))
    /\ enum_doc_parts' = << >>
    /\ enum_name' = << >>
    /\ enum_value' = << >>
    /\ pc' = "enum"
    /\ budget' = budget - 1
    /\ UNCHANGED << properties, prop, prop_doc_parts, property_attributes,
                    enumeration, rendering,
                    methods, methods_attributes >>
    /\ UNCHANGED << kind, token, declaration, local_name, input, options, output,
                    docstring_lines, doc, attributes, arg, arg_doc_parts,
                    method_attributes, classdef, class_attributes, error, cls,
                    settings, result >>
    /\ UNCHANGED directive

\* self.enumeration[enum_name] = (enum_value, enum_doc)
enum_commit(enum, name, value, parts) ==
    SetItem(enum, name, [value |-> value, doc |-> parse_comment_docstring(parts)])

\* meta.assignment.definition.enummember.matlab
EnumMember ==
    /\ kind = "Classdef" /\ pc = "enum" /\ budget > 0
    /\ \E name \in EnumNames :
         /\ Read(Child("meta.assignment.definition.enummember.matlab", name, << >>))
         /\ IF enum_name = << >>
            THEN /\ UNCHANGED << enumeration, enum_doc_parts, enum_value, error >>
                 /\ enum_name' = name
                 /\ pc' = pc
            ELSE IF parse_comment_docstring(enum_doc_parts) = Raised("ValueError")
            THEN /\ Raise("ValueError")
                 /\ UNCHANGED << enumeration, enum_doc_parts, enum_value, enum_name >>
            ELSE /\ enumeration' = enum_commit(enumeration, enum_name, enum_value,
                                               enum_doc_parts)
                 /\ enum_doc_parts' = << >>
                 /\ enum_value' = << >>
                 /\ enum_name' = name
                 /\ pc' = pc
                 /\ error' = error
    /\ budget' = budget - 1
    /\ UNCHANGED << properties, prop, prop_doc_parts, property_attributes, rendering,
                    methods, methods_attributes >>
    /\ UNCHANGED << kind, token, declaration, local_name, input, options, output,
                    docstring_lines, doc, attributes, arg, arg_doc_parts,
                    method_attributes, classdef, class_attributes, cls, settings,
                    result >>
    /\ UNCHANGED directive

\* meta.parens.matlab inside an enum block
EnumValue ==
    /\ kind = "Classdef" /\ pc = "enum" /\ budget > 0
    /\ \E content \in EnumParens :
         /\ Read(Child("meta.parens.matlab", content, << >>))
         /\ enum_value' = content
    /\ budget' = budget - 1
    /\ UNCHANGED << properties, prop, prop_doc_parts, property_attributes,
                    enumeration, enum_name, enum_doc_parts, rendering,
                    methods, methods_attributes >>
    /\ UNCHANGED << kind, token, pc, declaration, local_name, input, options,
                    output, docstring_lines, doc, attributes, arg, arg_doc_parts,
                    method_attributes, classdef, class_attributes, error, cls,
                    settings, result >>
    /\ UNCHANGED directive

\* comment.line.percentage.matlab inside an enum block
EnumComment ==
    /\ kind = "Classdef" /\ pc = "enum" /\ budget > 0
    /\ \E c \in LineComments :
         /\ Read(Child("comment.line.percentage.matlab", c, << >>))
         /\ enum_doc_parts' = append_comment(c, enum_doc_parts)
    /\ budget' = budget - 1
    /\ UNCHANGED << properties, prop, prop_doc_parts, property_attributes,
                    enumeration, enum_name, enum_value, rendering,
                    methods, methods_attributes >>
    /\ UNCHANGED << kind, token, pc, declaration, local_name, input, options,
                    output, docstring_lines, doc, attributes, arg, arg_doc_parts,
                    method_attributes, classdef, class_attributes, error, cls,
                    settings, result >>
    /\ UNCHANGED directive

\* the else branch of the loop over the enum block
EnumEnd ==
    /\ kind = "Classdef" /\ pc = "enum"
    /\ Read(Child("end", << >>, << >>))
    /\ IF enum_name = << >>
       THEN /\ UNCHANGED << enumeration, enum_doc_parts, enum_value, error >>
            /\ pc' = "children"
       ELSE IF parse_comment_docstring(enum_doc_parts) = Raised("ValueError")
       THEN /\ Raise("ValueError")
            /\ UNCHANGED << enumeration, enum_doc_parts, enum_value >>
       ELSE /\ enumeration' = enum_commit(enumeration, enum_name, enum_value,
                                          enum_doc_parts)
            /\ enum_doc_parts' = << >>
            /\ enum_value' = << >>
            /\ pc' = "children"
            /\ error' = error
    /\ UNCHANGED << properties, prop, prop_doc_parts, property_attributes,
                    enum_name, rendering,
                    methods, methods_attributes >>
    /\ UNCHANGED << kind, token, budget, declaration, local_name, input, options,
                    output, docstring_lines, doc, attributes, arg, arg_doc_parts,
                    method_attributes, classdef, class_attributes, cls, settings,
                    result >>
    /\ UNCHANGED directive

\* self._doc = parse_comment_docstring(docstring_lines)
\* Method.__init__ on a function of a methods block: the Method, or the exception
Method(method_item, attrs, class_name) ==
    LET declared == DeclareAll(<< >>, method_item.inputs)
        lines    == IF method_item.comment = << >> THEN << >>
                    ELSE append_comment(method_item.comment, << >>)
        elided   == elides(method_item.name, class_name,
                           attrs.fields.Static = PyBool(TRUE))
    IN  [raised     |-> IF elided /\ declared = << >> THEN "KeyError" ELSE "none",
         kind       |-> "Method",
         local_name |-> method_item.name,
         input      |-> IF elided /\ declared # << >> THEN PopFirst(declared)
                        ELSE declared,
         options    |-> << >>,
         doc        |-> parse_comment_docstring(lines),
         attributes |-> attrs.fields,
         classdef   |-> class_name]

\* meta.methods.matlab: the modifiers of the block, then its loop starts
MethodsBegin ==
    /\ kind = "Classdef" /\ pc = "children" /\ budget > 0
    /\ \E l \in MethodModifierLists :
         LET mods  == method_modifier_scan(l, << >>, "", PyBool(TRUE))
             attrs == from_dict("MethodAttributes", mods)
         IN  /\ Read(Child("meta.methods.matlab", l, mods))
             /\ IF attrs.raised # "none"
                THEN Raise(attrs.raised) /\ methods_attributes' = methods_attributes
                ELSE /\ methods_attributes' = attrs
                     /\ pc' = "methods"
                     /\ error' = error
    /\ budget' = budget - 1
    /\ UNCHANGED << properties, prop, prop_doc_parts, property_attributes,
                    enumeration, enum_name, enum_value, enum_doc_parts, methods,
                    rendering >>
    /\ UNCHANGED << kind, token, declaration, local_name, input, options, output,
                    docstring_lines, doc, attributes, arg, arg_doc_parts,
                    method_attributes, classdef, class_attributes, cls, settings,
                    result >>
    /\ UNCHANGED directive

\* Mutant of add_method: a name that is already a key keeps its first Method.
add_method_first_wins(self_methods, method) ==
    IF Has(self_methods, method.local_name) THEN self_methods
    ELSE SetItem(self_methods, method.local_name, method)

\* self.methods[method.local_name] = method
add_method(self_methods, method) == SetItem(self_methods, method.local_name, method)

\* meta.function.matlab inside a methods block
MethodsFunction ==
    /\ kind = "Classdef" /\ pc = "methods" /\ budget > 0
    /\ \E method_item \in ClassMethodItems :
         LET method == Method(method_item, methods_attributes, local_name)
         IN  /\ Read(Child("meta.function.matlab", method_item, << >>))
             /\ IF method.raised # "none"
                THEN Raise(method.raised) /\ methods' = methods
                ELSE /\ methods' = add_method(methods, method)
                     /\ pc' = pc
                     /\ error' = error
    /\ budget' = budget - 1
    /\ UNCHANGED << properties, prop, prop_doc_parts, property_attributes,
                    enumeration, enum_name, enum_value, enum_doc_parts,
                    methods_attributes, rendering >>
    /\ UNCHANGED << kind, token, declaration, local_name, input, options, output,
                    docstring_lines, doc, attributes, arg, arg_doc_parts,
                    method_attributes, classdef, class_attributes, cls, settings,
                    result >>
    /\ UNCHANGED directive

\* the loop over the functions of the methods block is exhausted
MethodsEnd ==
    /\ kind = "Classdef" /\ pc = "methods"
    /\ Read(Child("end", << >>, << >>))
    /\ pc' = "children"
    /\ UNCHANGED << class_members, rendering >>
    /\ UNCHANGED << kind, token, budget, declaration, local_name, input, options,
                    output, docstring_lines, doc, attributes, arg, arg_doc_parts,
                    method_attributes, classdef, class_attributes, error, cls,
                    settings, result >>
    /\ UNCHANGED directive

ClassFinish ==
    /\ kind = "Classdef" /\ pc = "children"
    /\ LET d == parse_comment_docstring(docstring_lines)
       IN  IF d = Raised("ValueError")
           THEN Raise("ValueError") /\ doc' = doc
           ELSE pc' = "built" /\ doc' = d /\ error' = error
    /\ UNCHANGED << class_members, rendering >>
    /\ UNCHANGED << kind, token, budget, declaration, children, local_name, input,
                    options, output, docstring_lines, attributes, arg,
                    arg_doc_parts, method_attributes, classdef, class_attributes,
                    cls, settings, result >>
    /\ UNCHANGED directive

----------------------------------------------------------------------------
\* doc(config) on a built object

ScriptDoc ==
    /\ kind = "Script" /\ pc = "built"
    /\ \E cfg \in ScriptConfigs :
         /\ config' = cfg
         /\ rendered' = [text |-> doc, tables |-> << >>]
    /\ pc' = "documented"
    /\ UNCHANGED class_members
    /\ UNCHANGED << kind, token, budget, declaration, children, local_name, input,
                    options, output, docstring_lines, doc, attributes, arg,
                    arg_doc_parts, method_attributes, classdef, class_attributes,
                    error, cls, settings, result >>
    /\ UNCHANGED directive

FunctionDoc ==
    /\ IsFunction /\ pc = "built"
    /\ \E cfg \in FunctionConfigs :
         /\ config' = cfg
         /\ rendered' = function_doc(doc, input, options, cfg)
    /\ pc' = "documented"
    /\ UNCHANGED class_members
    /\ UNCHANGED << kind, token, budget, declaration, children, local_name, input,
                    options, output, docstring_lines, doc, attributes, arg,
                    arg_doc_parts, method_attributes, classdef, class_attributes,
                    error, cls, settings, result >>
    /\ UNCHANGED directive

ClassDoc ==
    /\ kind = "Classdef" /\ pc = "built"
    /\ \E cfg \in ClassConfigs :
         /\ config' = cfg
         /\ rendered' = classdef_doc(doc, local_name, methods, enumeration, properties, cfg)
    /\ pc' = "documented"
    /\ UNCHANGED class_members
    /\ UNCHANGED << kind, token, budget, declaration, children, local_name, input,
                    options, output, docstring_lines, doc, attributes, arg,
                    arg_doc_parts, method_attributes, classdef, class_attributes,
                    error, cls, settings, result >>
    /\ UNCHANGED directive

----------------------------------------------------------------------------
Init == BuildInit

Next ==
    \/ ValidateToken
    \/ PropertyBuild
    \/ ScriptLineComment
    \/ ScriptSectionComment
    \/ ScriptBlockComment
    \/ ScriptStop
    \/ ScriptFinish
    \/ FunctionDeclaration
    \/ FunctionBlockComment
    \/ FunctionLineComment
    \/ FunctionSectionComment
    \/ ArgumentsBegin
    \/ ArgumentsProperty
    \/ ArgumentsComment
    \/ ArgumentsEnd
    \/ FunctionFinish
    \/ MethodElide
    \/ ClassDeclaration
    \/ ClassBlockComment
    \/ ClassLineComment
    \/ ClassSectionComment
    \/ PropertiesBegin
    \/ PropertiesProperty
    \/ PropertiesComment
    \/ PropertiesEnd
    \/ EnumBegin
    \/ EnumMember
    \/ EnumValue
    \/ EnumComment
    \/ EnumEnd
    \/ MethodsBegin
    \/ MethodsFunction
    \/ MethodsEnd
    \/ ClassFinish
    \/ ScriptDoc
    \/ FunctionDoc
    \/ ClassDoc

Spec == Init /\ [][Next]_vars

(***************************************************************************)
(* Attribute parser: from_dict applied to a raw modifier map               *)
(***************************************************************************)
AttributesInit ==
    /\ kind = "Attributes"
    /\ token = ""
    /\ pc = "call"
    /\ budget = 0
    /\ declaration = NoDeclaration
    /\ children = << >>
    /\ local_name = ""
    /\ input = << >>
    /\ options = << >>
    /\ output = << >>
    /\ docstring_lines = << >>
    /\ doc = << >>
    /\ attributes = NoAttributes
    /\ arg = NoArg
    /\ arg_doc_parts = << >>
    /\ method_attributes = [Static |-> FALSE]
    /\ classdef = ""
    /\ class_attributes = NoResult
    /\ error = "none"
    /\ cls \in Variants
    /\ settings \in RawMaps
    /\ result = NoResult
    /\ properties = << >>
    /\ prop = NoArg
    /\ prop_doc_parts = << >>
    /\ property_attributes = NoResult
    /\ enumeration = << >>
    /\ enum_name = << >>
    /\ enum_value = << >>
    /\ enum_doc_parts = << >>
    /\ methods = << >>
    /\ methods_attributes = NoResult
    /\ app_config = << >>
    /\ overrides = << >>
    /\ values = << >>
    /\ field = 0
    /\ warnings = << >>
    /\ workspace_node = "unset"
    /\ nodes = "unset"
    /\ config = NoConfig
    /\ rendered = NoRendered

FromDict ==
    /\ pc = "call"
    /\ result' = from_dict(cls, settings)
    /\ pc' = "returned"
    /\ UNCHANGED << class_members, rendering >>
    /\ UNCHANGED << kind, token, budget, declaration, children, local_name, input,
                    options, output, docstring_lines, doc, attributes, arg,
                    arg_doc_parts, method_attributes, classdef, class_attributes,
                    error, cls, settings >>
    /\ UNCHANGED directive

AttributesNext == FromDict

AttributesSpec == AttributesInit /\ [][AttributesNext]_vars

(***************************************************************************)
(* Docstring assembler: parse_comment_docstring applied to a sequence of   *)
(* lines, and applied again to its own result                              *)
(***************************************************************************)
\* The characters of a comment line: a space and a letter.
LineChars == {" ", "a"}

\* The lines and line sequences handed to parse_comment_docstring.
Lines == SeqsUpTo(LineChars, MaxLineLen)

LineSequences == SeqsUpTo(Lines, MaxLines)

DocstringInit ==
    /\ kind = "Docstring"
    /\ token = ""
    /\ pc = "call"
    /\ budget = 0
    /\ declaration = NoDeclaration
    /\ children = << >>
    /\ local_name = ""
    /\ input = << >>
    /\ options = << >>
    /\ output = << >>
    /\ docstring_lines \in LineSequences
    /\ doc = << >>
    /\ attributes = NoAttributes
    /\ arg = NoArg
    /\ arg_doc_parts = << >>
    /\ method_attributes = [Static |-> FALSE]
    /\ classdef = ""
    /\ class_attributes = NoResult
    /\ error = "none"
    /\ cls = "none"
    /\ settings = << >>
    /\ result = NoResult
    /\ properties = << >>
    /\ prop = NoArg
    /\ prop_doc_parts = << >>
    /\ property_attributes = NoResult
    /\ enumeration = << >>
    /\ enum_name = << >>
    /\ enum_value = << >>
    /\ enum_doc_parts = << >>
    /\ methods = << >>
    /\ methods_attributes = NoResult
    /\ app_config = << >>
    /\ overrides = << >>
    /\ values = << >>
    /\ field = 0
    /\ warnings = << >>
    /\ workspace_node = "unset"
    /\ nodes = "unset"
    /\ config = NoConfig
    /\ rendered = NoRendered

\* doc = parse_comment_docstring(lines)
ParseDocstring ==
    /\ kind = "Docstring" /\ pc = "call"
    /\ LET d == parse_comment_docstring(docstring_lines)
       IN  IF d = Raised("ValueError")
           THEN Raise("ValueError") /\ doc' = doc
           ELSE pc' = "returned" /\ doc' = d /\ error' = error
    /\ UNCHANGED << class_members, rendering >>
    /\ UNCHANGED << kind, token, budget, declaration, children, local_name, input,
                    options, output, docstring_lines, attributes, arg,
                    arg_doc_parts, method_attributes, classdef, class_attributes,
                    cls, settings, result >>
    /\ UNCHANGED directive

\* doc = parse_comment_docstring([doc])
ReparseDocstring ==
    /\ kind = "Docstring" /\ pc = "returned"
    /\ docstring_lines' = << doc >>
    /\ LET d == parse_comment_docstring(<< doc >>)
       IN  IF d = Raised("ValueError")
           THEN Raise("ValueError") /\ doc' = doc
           ELSE pc' = "reparsed" /\ doc' = d /\ error' = error
    /\ UNCHANGED << class_members, rendering >>
    /\ UNCHANGED << kind, token, budget, declaration, children, local_name, input,
                    options, output, attributes, arg,
                    arg_doc_parts, method_attributes, classdef, class_attributes,
                    cls, settings, result >>
    /\ UNCHANGED directive

DocstringNext == ParseDocstring \/ ReparseDocstring

DocstringSpec == DocstringInit /\ [][DocstringNext]_vars

(***************************************************************************)
(* The directive: FunctionRenderer.run and load_config                     *)
(*                                                                         *)
(* An option value is [ty, val] like the raw values of the attribute       *)
(* parser; a list or tuple is held by the text of its literal, and Items   *)
(* gives its elements.                                                     *)
(***************************************************************************)
PyList(text)  == [ty |-> "list",  val |-> text]
PyTuple(text) == [ty |-> "tuple", val |-> text]

\* The elements of the list and tuple literals that occur as option values.
Items(v) ==
    CASE v.val = "[]"               -> << >>
      [] v.val = "['hidden']"       -> << PyStr("hidden") >>
      [] v.val = "['bogus']"        -> << PyStr("bogus") >>
      [] v.val = "[('a', 'rst')]"   -> << PyTuple("('a', 'rst')") >>
      [] v.val = "[('(', 'rst')]"   -> << PyTuple("('(', 'rst')") >>
      [] v.val = "[(1, 'rst')]"     -> << PyTuple("(1, 'rst')") >>
      [] v.val = "('a', 'rst')"     -> << PyStr("a"), PyStr("rst") >>
      [] v.val = "('(', 'rst')"     -> << PyStr("("), PyStr("rst") >>
      [] v.val = "(1, 'rst')"       -> << PyInt("1"), PyStr("rst") >>
      [] OTHER                      -> << >>

\* The fields of Config that the model follows, in the order of as_triple.
ConfigFields ==
    << "render_plugin", "hidden_objects", "docstring_parser_regexes",
       "argument_block_parameters", "argument_options_table", "class_docstring",
       "class_properties_table" >>

\* Config(): the declared default of every field.
ConfigDefaults ==
    [render_plugin             |-> [ty |-> "type", val |-> load_renderer("rst")],
     hidden_objects            |-> [ty |-> "set", val |-> "{'hidden', 'private', 'inherited'}"],
     docstring_parser_regexes  |-> PyList("[]"),
     argument_block_parameters |-> PyBool(TRUE),
     argument_options_table    |-> PyBool(TRUE),
     class_docstring           |-> PyStr("merge"),
     class_properties_table    |-> PyBool(TRUE)]

\* The fields whose metadata holds a sphinx_validate.
Validated == {"render_plugin", "hidden_objects", "docstring_parser_regexes"}

\* _validate_hidden_objects: [raised, value]
validate_hidden_objects(item) ==
    IF \/ item.ty \notin {"list", "tuple", "set"}
       \/ \E i \in 1..Len(Items(item)) : Items(item)[i].ty # "str"
    THEN [raised |-> "ValidationError", value |-> item]
    ELSE IF ~({Items(item)[i].val : i \in 1..Len(Items(item))}
                \subseteq {"undoc", "hidden", "private", "protected", "inherited"})
    THEN [raised |-> "ValidationError", value |-> item]
    ELSE [raised |-> "none", value |-> [ty |-> "set", val |-> item.val]]

\* The patterns re.compile rejects with re.error.
InvalidPatterns == {"("}

\* _validate_list_tuple_regex_str: [raised, value]; re.compile raises TypeError
\* for a pattern that is no string, and only re.error is caught
validate_list_tuple_regex_str(item) ==
    IF \/ item.ty # "list"
       \/ \E i \in 1..Len(Items(item)) :
            ~(Items(item)[i].ty \in {"list", "tuple"} /\ Len(Items(Items(item)[i])) = 2)
    THEN [raised |-> "ValidationError", value |-> item]
    ELSE LET regex(i) == Items(Items(item)[i])[1]
             failing  == {i \in 1..Len(Items(item)) :
                            regex(i).ty # "str" \/ regex(i).val \in InvalidPatterns}
         IN  IF failing = {}
             THEN [raised |-> "none", value |-> [ty |-> "compiled", val |-> item.val]]
             ELSE IF regex(Min(failing)).ty # "str"
             THEN [raised |-> "TypeError", value |-> item]
             ELSE [raised |-> "ValidationError", value |-> item]

\* field.metadata["sphinx_validate"](sphinx_name, value): [raised, value]
sphinx_validate(name, value) ==
    CASE name = "render_plugin" ->
           [raised |-> "none", value |-> [ty |-> "type", val |-> load_renderer(value.val)]]
      [] name = "hidden_objects" -> validate_hidden_objects(value)
      [] name = "docstring_parser_regexes" -> validate_list_tuple_regex_str(value)

\* Config(**values)
Config(vals) ==
    [name \in DOMAIN ConfigDefaults |->
       IF Has(vals, name) THEN Get(vals, name) ELSE ConfigDefaults[name]]

\* The options of a loaded Config that Function.doc reads.
DocConfig(c) ==
    [render_plugin             |-> c.render_plugin.val,
     argument_block_parameters |-> c.argument_block_parameters = PyBool(TRUE),
     argument_options_table    |-> c.argument_options_table = PyBool(TRUE),
     class_docstring           |-> c.class_docstring.val,
     class_properties_table    |-> c.class_properties_table = PyBool(TRUE)]

\* app.config: what conf.py gives for the options it sets
HostConfigs ==
    [render_plugin             : {PyStr("rst"), PyStr("md")},
     hidden_objects            : {PyList("['hidden']"), PyStr("hidden"), PyList("['bogus']")},
     docstring_parser_regexes  : {PyList("[]"), PyList("[('a', 'rst')]"), PyStr("x"),
                                  PyList("[('(', 'rst')]"), PyList("[(1, 'rst')]")},
     argument_block_parameters : {PyBool(TRUE)},
     argument_options_table    : {PyBool(TRUE)},
     class_docstring           : {PyStr("merge")},
     class_properties_table    : {PyBool(TRUE)}]

\* tomllib.loads of the directive's content: the overrides, or the exception
TomlResults ==
    { [raised |-> "none", value |-> << >>],
      [raised |-> "none",
       value |-> << [key |-> "argument_block_parameters", value |-> PyBool(FALSE)] >>],
      [raised |-> "none",
       value |-> << [key |-> "hidden_objects", value |-> PyList("['bogus']")] >>],
      [raised |-> "none",
       value |-> << [key |-> "docstring_parser_regexes", value |-> PyList("[]")] >>],
      [raised |-> "none", value |-> << [key |-> "foo", value |-> PyInt("1")] >>],
      [raised |-> "TOMLDecodeError", value |-> << >>] }

\* The Function built from the workspace node: `function f(a)` with help `% x`
DirectiveItem ==
    [doc |-> <<"x">>, input |-> DeclareAll(<< >>, << <<"a">> >>), options |-> << >>]

\* warn_sphinx(msg, subtype, location)
warn_sphinx(subtype) == warnings' = Append(warnings, subtype)

DirectiveInit ==
    /\ kind = "Directive"
    /\ token = ""
    /\ pc = "run"
    /\ budget = 0
    /\ declaration = NoDeclaration
    /\ children = << >>
    /\ local_name = ""
    /\ input = << >>
    /\ options = << >>
    /\ output = << >>
    /\ docstring_lines = << >>
    /\ doc = << >>
    /\ attributes = NoAttributes
    /\ arg = NoArg
    /\ arg_doc_parts = << >>
    /\ method_attributes = [Static |-> FALSE]
    /\ classdef = ""
    /\ class_attributes = NoResult
    /\ error = "none"
    /\ cls = "none"
    /\ settings = << >>
    /\ result = NoResult
    /\ properties = << >>
    /\ prop = NoArg
    /\ prop_doc_parts = << >>
    /\ property_attributes = NoResult
    /\ enumeration = << >>
    /\ enum_name = << >>
    /\ enum_value = << >>
    /\ enum_doc_parts = << >>
    /\ methods = << >>
    /\ methods_attributes = NoResult
    /\ config = NoConfig
    /\ rendered = NoRendered
    /\ app_config \in HostConfigs
    /\ overrides = << >>
    /\ values = << >>
    /\ field = 0
    /\ warnings = << >>
    /\ workspace_node = "unset"
    /\ nodes = "unset"

build == << kind, token, budget, declaration, children, local_name, input, options,
            output, docstring_lines, doc, attributes, arg, arg_doc_parts,
            method_attributes, classdef, class_attributes, cls, settings, result >>

\* Mutant of RunLookup: after the warning the run goes on to the configuration.
RunLookup_continuing ==
    /\ kind = "Directive" /\ pc = "run"
    /\ \E found \in {"None", "node"} :
         /\ workspace_node' = found
         /\ IF found = "None" THEN warn_sphinx("missing") ELSE warnings' = warnings
         /\ pc' = "content"
         /\ nodes' = nodes
    /\ UNCHANGED << build, class_members, rendering, error >>
    /\ UNCHANGED << app_config, overrides, values, field >>

\* run up to the lookup of the name: workspace.find_symbol(full_name)
RunLookup ==
    /\ kind = "Directive" /\ pc = "run"
    /\ \E found \in {"None", "node"} :
         /\ workspace_node' = found
         /\ IF found = "None"
            THEN /\ warn_sphinx("missing")
                 /\ nodes' = << >>
                 /\ pc' = "returned"
            ELSE /\ pc' = "content"
                 /\ UNCHANGED << warnings, nodes >>
    /\ UNCHANGED << build, class_members, rendering, error >>
    /\ UNCHANGED << app_config, overrides, values, field >>

\* the overrides of the directive's content; after a TOML error the name
\* overrides is unbound when load_config is called with it
RunOverrides ==
    /\ kind = "Directive" /\ pc = "content"
    /\ \E toml \in TomlResults :
         IF toml.raised # "none"
         THEN /\ warn_sphinx("config_error")
              /\ Raise("UnboundLocalError")
              /\ overrides' = overrides
         ELSE /\ overrides' = toml.value
              /\ pc' = "load_config"
              /\ UNCHANGED << warnings, error >>
    /\ UNCHANGED << build, class_members, rendering >>
    /\ UNCHANGED << app_config, values, field, workspace_node, nodes >>

\* load_config up to its loop: the check of the keys of overrides
LoadConfigBegin ==
    /\ kind = "Directive" /\ pc = "load_config"
    /\ values' = << >>
    /\ IF \E i \in 1..Len(overrides) : overrides[i].key \notin DOMAIN ConfigDefaults
       THEN warn_sphinx("config_error")
       ELSE warnings' = warnings
    /\ field' = 1
    /\ pc' = "fields"
    /\ UNCHANGED << build, class_members, rendering, error >>
    /\ UNCHANGED << app_config, overrides, workspace_node, nodes >>

\* one iteration of the loop over config_fields.items()
LoadConfigField ==
    /\ kind = "Directive" /\ pc = "fields" /\ field <= Len(ConfigFields)
    /\ LET name  == ConfigFields[field]
           value == IF Has(overrides, name) THEN Get(overrides, name)
                    ELSE app_config[name]
       IN  IF name \in Validated
           THEN LET checked == sphinx_validate(name, value)
                IN  CASE checked.raised = "none" ->
                           /\ values' = SetItem(values, name, checked.value)
                           /\ field' = field + 1
                           /\ UNCHANGED << warnings, pc, error >>
                      [] checked.raised = "ValidationError" ->
                           /\ warn_sphinx("config_error")
                           /\ field' = field + 1
                           /\ UNCHANGED << values, pc, error >>
                      [] OTHER ->
                           /\ Raise(checked.raised)
                           /\ UNCHANGED << values, field, warnings >>
           ELSE /\ values' = SetItem(values, name, value)
                /\ field' = field + 1
                /\ UNCHANGED << warnings, pc, error >>
    /\ UNCHANGED << build, class_members, rendering >>
    /\ UNCHANGED << app_config, overrides, workspace_node, nodes >>

\* return Config(**values)
LoadConfigReturn ==
    /\ kind = "Directive" /\ pc = "fields" /\ field > Len(ConfigFields)
    /\ config' = Config(values)
    /\ pc' = "loaded"
    /\ UNCHANGED << build, class_members, rendered, error, directive >>

\* item = objects.Function(workspace_node); docstring = item.doc(config)
RunDoc ==
    /\ kind = "Directive" /\ pc = "loaded"
    /\ rendered' = function_doc(DirectiveItem.doc, DirectiveItem.input,
                                DirectiveItem.options, DocConfig(config))
    /\ pc' = "docstring"
    /\ UNCHANGED << build, class_members, config, error, directive >>

\* the rest of run: the nodes made of the docstring.  item.offset is read on
\* every path but the literal one without line numbers and the parser one
RunReturn ==
    /\ kind = "Directive" /\ pc = "docstring"
    /\ \E option \in {"literal", "literal-linenos", "parser", "none"} :
         IF option \in {"literal", "parser"}
         THEN /\ nodes' = << option >>
              /\ pc' = "returned"
              /\ error' = error
         ELSE Raise("AttributeError") /\ nodes' = nodes
    /\ UNCHANGED << build, class_members, rendering >>
    /\ UNCHANGED << app_config, overrides, values, field, warnings, workspace_node >>

DirectiveNext ==
    \/ RunLookup
    \/ RunOverrides
    \/ LoadConfigBegin
    \/ LoadConfigField
    \/ LoadConfigReturn
    \/ RunDoc
    \/ RunReturn

DirectiveSpec == DirectiveInit /\ [][DirectiveNext]_vars

(***************************************************************************)
(* Reading the consumed children back, for the statements below            *)
(***************************************************************************)
Range(q) == {q[i] : i \in 1..Len(q)}

Max(S) == CHOOSE x \in S : \A y \in S : y <= x

NoDuplicates(q) == \A i, j \in 1..Len(q) : i # j => q[i] # q[j]

IsProp(i) == children[i].tok = "meta.assignment.definition.property.matlab"

\* The property declarations of a Function already handed to _add_argument.
AddedIndices ==
    {i \in 1..Len(children) :
       IsFunction /\ IsProp(i) /\ ~(pc = "arguments" /\ arg.id = i)}

\* The argument block a property declaration stands in.
BlockOf(i) == Max({j \in 1..i : children[j].tok = "meta.arguments.matlab"})

InOutputBlock(i) == "Output" \in Range(children[BlockOf(i)].mods)

IsDotted(n) == "." \in Range(n)

FirstDot(n) == Min({k \in 1..Len(n) : n[k] = "."})

RootOf(n) == SubSeq(n, 1, FirstDot(n) - 1)

FieldOf(n) == SubSeq(n, FirstDot(n) + 1, Len(n))

\* Properties of blocks that are not Output, already classified.
InputArgs == {i \in AddedIndices : ~InOutputBlock(i)}

OutputArgs == {i \in AddedIndices : InOutputBlock(i)}

DottedInputArgs == {i \in InputArgs : IsDotted(children[i].content)}

DottedRoots == {RootOf(children[i].content) : i \in DottedInputArgs}

PlainNames == {children[i].content : i \in InputArgs \ DottedInputArgs}

\* The classified non-Output properties that name r or have r as dotted root.
Touches(r) ==
    {i \in InputArgs : \/ children[i].content = r
                       \/ IsDotted(children[i].content) /\ RootOf(children[i].content) = r}

\* The last such property names r itself.
LastPlain(r) == Touches(r) # {} /\ children[Max(Touches(r))].content = r

\* A step in which _add_argument classifies the pending property and returns.
AddStep ==
    /\ pc = "arguments" /\ arg # NoArg
    /\ pc' \in {"arguments", "children"}
    /\ Len(children') = Len(children) + 1
    /\ children'[Len(children')].tok \in
         {"meta.assignment.definition.property.matlab", "end"}

Stored(d, id) == {i \in 1..Len(d) : d[i].value.element = id}

FinishedFunction == kind = "Function" /\ pc = "built"

(***************************************************************************)
(* C1: Method construction removes the first entry of input if and only if *)
(* the method is neither Static nor named like its class.                  *)
(***************************************************************************)
C1_ElisionIffNeitherStaticNorConstructor ==
    [][ (pc = "elide" /\ pc' = "built") =>
          LET removes == ~method_attributes'.Static /\ local_name # classdef
          IN  input' = IF removes THEN Tail(input) ELSE input ]_vars

(***************************************************************************)
(* C2: classifying a non-Output property `p.f` while `p` is a placeholder  *)
(* of input removes `p` from input, stores the Property, renamed `f`, in   *)
(* options under `f` and nowhere else, and changes no other key of input,  *)
(* options or output.                                                      *)
(***************************************************************************)
C2_DottedMovesRootToOptions ==
    [][ ( /\ AddStep
          /\ ~attributes.Output
          /\ IsDotted(arg.content)
          /\ Has(input, RootOf(arg.content))
          /\ Get(input, RootOf(arg.content)).kind = "str" ) =>
        LET p == RootOf(arg.content)
            f == FieldOf(arg.content)
            other(e) == e.key # p
            rest(e) == e.key # f
        IN  /\ ~Has(input', p)
            /\ input' = SelectSeq(input, other)
            /\ output' = output
            /\ Has(options', f)
            /\ Get(options', f).kind = "Property"
            /\ Get(options', f).element = arg.id
            /\ Get(options', f).name = f
            /\ Cardinality(Stored(options', arg.id)) = 1
            /\ Stored(input', arg.id) = {} /\ Stored(output', arg.id) = {}
            /\ Keys(options') = IF Has(options, f) THEN Keys(options)
                                ELSE Append(Keys(options), f)
            /\ SelectSeq(options', rest) = SelectSeq(options, rest) ]_vars

C2_Witness ==
    /\ error = "none"
    /\ \E i \in DottedInputArgs :
         LET p == RootOf(children[i].content)
             f == FieldOf(children[i].content)
         IN  /\ p \in Range(declaration.inputs)
             /\ Touches(p) = {i}
             /\ ~Has(input, p)
             /\ Has(options, f)
             /\ Get(options, f).element = i

(***************************************************************************)
(* C3 as stated: once a dotted argument with root p has been classified, p *)
(* is never again a key of input.                                          *)
(***************************************************************************)
C3_RootNeverReappears ==
    error = "none" => \A r \in DottedRoots : ~Has(input, r)

(***************************************************************************)
(* C3 as amended: once a non-Output dotted argument with root p has been   *)
(* classified, p is a key of input exactly when the last non-Output        *)
(* property classified since, among those named p or dotted with root p,   *)
(* is named p itself (Method's elision apart, which may remove it again).  *)
(***************************************************************************)
C3_RootReappearsOnlyByPlainProperty ==
    error = "none" =>
      \A r \in DottedRoots :
        /\ Has(input, r) => LastPlain(r)
        /\ (LastPlain(r) /\ ~(kind = "Method" /\ pc \in {"built", "documented"})) => Has(input, r)

C3_Witness ==
    /\ error = "none"
    /\ \E i \in DottedInputArgs :
         /\ RootOf(children[i].content) \in Range(declaration.inputs)
         /\ ~Has(input, RootOf(children[i].content))
         /\ \E j \in InputArgs : j > i

(***************************************************************************)
(* C4 as stated: the keys of input of a finished Function are the declared *)
(* input names minus the roots of dotted properties, none twice.           *)
(***************************************************************************)
C4_InputKeysAreDeclaredMinusRoots ==
    FinishedFunction =>
      /\ KeySet(input) = Range(declaration.inputs) \ DottedRoots
      /\ NoDuplicates(Keys(input))

(***************************************************************************)
(* C4 as amended: the keys of input of a finished Function are the         *)
(* declared input names and the names of the un-dotted non-Output          *)
(* properties, minus every name whose last non-Output occurrence in an     *)
(* argument block is as the root of a dotted property; no key twice.       *)
(***************************************************************************)
C4_InputKeysFromDeclarationAndBlocks ==
    FinishedFunction =>
      /\ KeySet(input) =
           {n \in Range(declaration.inputs) \cup PlainNames :
               n \in DottedRoots => LastPlain(n)}
      /\ NoDuplicates(Keys(input))

C4_Witness ==
    /\ FinishedFunction
    /\ Len(declaration.inputs) >= 2
    /\ DottedRoots # {}
    /\ input # << >>
    /\ KeySet(input) = Range(declaration.inputs) \ DottedRoots

(***************************************************************************)
(* C5: a Property of an Output argument block is stored in output under    *)
(* its name, dotted or not, and in no other mapping; input and options are *)
(* left unchanged.                                                         *)
(***************************************************************************)
C5_OutputPropertyGoesToOutputOnly ==
    [][ (AddStep /\ attributes.Output) =>
        LET n == arg.content
            rest(e) == e.key # n
        IN  /\ input' = input
            /\ options' = options
            /\ Has(output', n)
            /\ Get(output', n).kind = "Property"
            /\ Get(output', n).element = arg.id
            /\ Get(output', n).name = n
            /\ Cardinality(Stored(output', arg.id)) = 1
            /\ SelectSeq(output', rest) = SelectSeq(output, rest) ]_vars

C5_Witness ==
    /\ error = "none"
    /\ \E i \in OutputArgs :
         /\ IsDotted(children[i].content)
         /\ RootOf(children[i].content) \in Range(declaration.inputs)
         /\ Has(input, RootOf(children[i].content))
         /\ Has(output, children[i].content)
         /\ Get(output, children[i].content).element = i
         /\ options = << >>

(***************************************************************************)
(* C6 as stated: in a finished Function, input and output iterate the      *)
(* names of the declaration in declaration order.                          *)
(***************************************************************************)
FirstIndex(q, x) == Min({i \in 1..Len(q) : q[i] = x})

\* a's entries all occur in b, in b's order of first occurrence
InOrderOf(a, b) ==
    /\ Range(a) \subseteq Range(b)
    /\ \A i, j \in 1..Len(a) : i < j => FirstIndex(b, a[i]) < FirstIndex(b, a[j])

C6_KeysInDeclarationOrder ==
    FinishedFunction =>
      /\ InOrderOf(Keys(input), declaration.inputs)
      /\ InOrderOf(Keys(output), declaration.outputs)

(***************************************************************************)
(* C6 as amended: input and output iterate their keys in insertion order:  *)
(* the declared names that were never removed first, in declaration order, *)
(* a placeholder replaced by a typed Property keeping its position; then   *)
(* the names an argument block inserted, or inserted again after a dotted  *)
(* property had removed them, in the order of those insertions.            *)
(***************************************************************************)
\* When the entry of n that input holds at the end was inserted.
InputTime(n) ==
    LET dotted  == {i \in Touches(n) : IsDotted(children[i].content)}
        lastDot == IF dotted = {} THEN 0 ELSE Max(dotted)
    IN  IF lastDot = 0 /\ n \in Range(declaration.inputs)
        THEN FirstIndex(declaration.inputs, n)
        ELSE Len(declaration.inputs) + Min({i \in Touches(n) : i > lastDot})

OutputTime(n) ==
    IF n \in Range(declaration.outputs)
    THEN FirstIndex(declaration.outputs, n)
    ELSE Len(declaration.outputs) + Min({i \in OutputArgs : children[i].content = n})

C6_KeysInInsertionOrder ==
    FinishedFunction =>
      /\ \A i, j \in 1..Len(input) :
           i < j => InputTime(input[i].key) < InputTime(input[j].key)
      /\ \A i, j \in 1..Len(output) :
           i < j => OutputTime(output[i].key) < OutputTime(output[j].key)

C6_Witness ==
    /\ FinishedFunction
    /\ Len(input) >= 2
    /\ Keys(input) = declaration.inputs
    /\ input[1].value.kind = "Property"
    /\ input[2].value.kind = "str"

(***************************************************************************)
(* C7: in a Function or Classdef build whose line or section comments      *)
(* precede a block comment, doc is the dedented content of the block       *)
(* comment alone.                                                          *)
(***************************************************************************)
IsLineComment(i) ==
    children[i].tok \in {"comment.line.percentage.matlab",
                         "comment.line.double-percentage.matlab"}

IsBlockComment(i) == children[i].tok = "comment.block.percentage.matlab"

BlockIndices == {i \in 1..Len(children) : IsBlockComment(i)}

Dedented(content) == parse_comment_docstring(append_block_comment(content))

C7_BlockCommentAlone ==
    ( /\ kind \in {"Function", "Classdef"} /\ pc = "built"
      /\ \E i, j \in 1..Len(children) : i < j /\ IsLineComment(i) /\ IsBlockComment(j) )
    => \E j \in BlockIndices : doc = Dedented(children[j].content)

(***************************************************************************)
(* C8: Script doc is assembled from the comment children before the first  *)
(* child that is no comment; with a block comment among them doc is the    *)
(* dedented content of the first block comment alone.                      *)
(***************************************************************************)
\* The text of a line or section comment child after its leader.
CommentText(c) ==
    IF c.tok = "comment.line.double-percentage.matlab"
    THEN SubSeq(c.content, 3, Len(c.content))
    ELSE SubSeq(c.content, 2, Len(c.content))

CommentLines ==
    LET isComment(c) == c.tok # "other"
        read == SelectSeq(children, isComment)
    IN  [i \in 1..Len(read) |-> CommentText(read[i])]

C8_ScriptDocFirstBlockCommentWins ==
    (kind = "Script" /\ pc = "built") =>
      /\ \A i \in 1..Len(children) : children[i].tok = "other" => i = Len(children)
      /\ \A i \in BlockIndices : i = Min(BlockIndices) /\ i = Len(children)
      /\ doc = IF BlockIndices # {}
               THEN Dedented(children[Min(BlockIndices)].content)
               ELSE parse_comment_docstring(CommentLines)

C8_Witness ==
    /\ kind = "Script" /\ pc = "built"
    /\ \E i, j \in 1..Len(children) : i < j /\ IsLineComment(i) /\ IsBlockComment(j)
    /\ doc = Dedented(children[Min(BlockIndices)].content)
    /\ doc # << >>

(***************************************************************************)
(* C9: from_dict coerces every boolean-typed field present in the raw map: *)
(* "True", "true", "t" and 1 give true, a flag without a value gives true, *)
(* every other value gives false.                                          *)
(***************************************************************************)
Returned == kind = "Attributes" /\ pc = "returned"

ValueMeansTrue(v) ==
    v \in {PyNone, PyBool(TRUE), PyStr("True"), PyStr("true"), PyStr("t"), PyInt("1")}

BoolFields(c) == {f \in DOMAIN Annotations(c) : Annotations(c)[f] = "bool"}

C9_BooleanCoercion ==
    (Returned /\ \A i \in 1..Len(settings) : settings[i].key \in BoolFields(cls)) =>
      /\ result.raised = "none"
      /\ \A i \in 1..Len(settings) :
           result.fields[settings[i].key] = PyBool(ValueMeansTrue(settings[i].value))

(***************************************************************************)
(* C10: a raw key that is no field of the variant is ignored: from_dict    *)
(* returns the record the recognised keys alone give, and raises nothing.  *)
(***************************************************************************)
KnownSettings ==
    LET known(e) == e.key \in DOMAIN Annotations(cls)
    IN  SelectSeq(settings, known)

C10_UnknownKeysIgnored ==
    ( /\ Returned
      /\ KnownSettings # settings
      /\ from_dict(cls, KnownSettings).raised = "none" )
    => result = from_dict(cls, KnownSettings)

(***************************************************************************)
(* C11: for the integer-typed field PartialMatchPriority, from_dict stores *)
(* the base-10 integer the raw text stands for; a raw text that is no      *)
(* integer makes the call fail with ValueError, and no record is returned; *)
(* the fields absent from the raw map take their declared default.         *)
(***************************************************************************)
IntFields(c) == {f \in DOMAIN Annotations(c) : Annotations(c)[f] = "int"}

\* The raw map names fields of the variant only.
AllKeysKnown == \A i \in 1..Len(settings) : settings[i].key \in DOMAIN Annotations(cls)

\* The base-10 reading of a raw text, digit by digit.
WellFormedInteger(text) == text \in {"0", "1", "2", "3", "4", "5", "6", "7", "8", "9", "07"}

IntegerOf(text) == IF text = "07" THEN PyInt("7") ELSE PyInt(text)

C11_IntegerFieldParsedOrRaised ==
    ( /\ Returned /\ IsDataclass(cls) /\ AllKeysKnown )
    => \A i \in 1..Len(settings) :
         (settings[i].key \in IntFields(cls) /\ settings[i].value.ty = "str") =>
            IF WellFormedInteger(settings[i].value.val)
            THEN /\ result.raised = "none"
                 /\ result.fields[settings[i].key] = IntegerOf(settings[i].value.val)
                 /\ \A f \in DOMAIN Annotations(cls) \ KeySet(settings) :
                      result.fields[f] = Defaults(cls)[f]
            ELSE result.raised = "ValueError"

C11_Witness ==
    /\ Returned /\ cls = "PropertyAttributes"
    /\ settings = << [key |-> "PartialMatchPriority", value |-> PyStr("true")] >>
    /\ result.raised = "ValueError"

(***************************************************************************)
(* C12: a Classdef whose declaration carries the list (Hidden, Sealed) is  *)
(* built with Class-Attributes Hidden = true and Sealed = true and every   *)
(* other field at its default; in general each bare flag of the list is    *)
(* true and each name=value pair is coerced as from_dict coerces it.       *)
(***************************************************************************)
\* The class declaration has been read.
ClassDeclared == kind = "Classdef" /\ pc \notin {"new", "declaration"}

\* What the attribute parser is to make of a raw value of a boolean field.
FlagValue(v) == PyBool(ValueMeansTrue(v))

C12_ClassModifiersBecomeAttributes ==
    (ClassDeclared /\ cls = "ClassdefAttributes") =>
      /\ error = "none"
      /\ class_attributes.raised = "none"
      /\ \A i \in 1..Len(settings) :
           class_attributes.fields[settings[i].key] = FlagValue(settings[i].value)
      /\ \A f \in DOMAIN Annotations(cls) \ KeySet(settings) :
           class_attributes.fields[f] = Defaults(cls)[f]

(***************************************************************************)
(* C13: with properties-table rendering enabled, the Properties table of   *)
(* Classdef.doc lists the public properties only: a property of a block    *)
(* attributed (Access = private) has no row, and a property of an          *)
(* unattributed block has a row whose default is rendered as inline code.  *)
(***************************************************************************)
Documented(k) == kind = k /\ pc = "documented"

\* The rows of the validation tables of the rendered doc.
ValidationRows ==
    UNION { Range(rendered.tables[t].table.rows) :
              t \in {u \in 1..Len(rendered.tables) :
                       rendered.tables[u].table.headers = <<"name", "type", "doc", "default">>} }

InlineCode(text) == {<<Backtick>> \o text \o <<Backtick>>,
                     <<Backtick, Backtick>> \o text \o <<Backtick, Backtick>>}

AccessOf(p) == p.attributes.fields.Access

GetAccessOf(p) == p.attributes.fields.GetAccess

C13_PropertiesTableListsPublicOnly ==
    (Documented("Classdef") /\ config.class_properties_table) =>
      \A i \in 1..Len(properties) :
        LET p == properties[i].value
        IN  /\ AccessOf(p) # PyStr("public") =>
                 ~\E row \in ValidationRows : row[1] = p.name
            /\ (AccessOf(p) = PyStr("public") /\ GetAccessOf(p) = PyStr("public")) =>
                 \E row \in ValidationRows :
                    /\ row[1] = p.name
                    /\ p.default # << >> => row[4] \in InlineCode(p.default)

(***************************************************************************)
(* C14: building a Classdef commits for every member of an enum block the  *)
(* pair (value text, assembled doc) under the member's name, the value     *)
(* text being the text of the member's value without its parentheses.      *)
(***************************************************************************)
IsMember(i) == children[i].tok = "meta.assignment.definition.enummember.matlab"

\* The enum block a token stands in.
EnumOf(i) == Max({j \in 1..i : children[j].tok = "meta.enum.matlab"})

\* The tokens of member i: those after it, up to the next member or the block end.
MemberTokens(i) ==
    {j \in (i + 1)..Len(children) :
        \A k \in (i + 1)..j : ~IsMember(k) /\ children[k].tok # "end"}

\* The member's scan is over: a later member or the block end has been read.
Committed(i) ==
    \E j \in (i + 1)..Len(children) : IsMember(j) \/ children[j].tok = "end"

WithoutParentheses(content) == SubSeq(content, 2, Len(content) - 1)

MemberValue(i) ==
    LET parens == {j \in MemberTokens(i) : children[j].tok = "meta.parens.matlab"}
    IN  IF parens = {} THEN << >> ELSE WithoutParentheses(children[Max(parens)].content)

MemberDoc(i) ==
    LET isOwn(j) == j \in MemberTokens(i) /\ children[j].tok = "comment.line.percentage.matlab"
        own == SelectSeq([j \in 1..Len(children) |-> j], isOwn)
    IN  parse_comment_docstring([k \in 1..Len(own) |-> CommentText(children[own[k]])])

\* Member i is the last declaration of its name, in an enum block that begins
\* with a member declaration.
LastOfItsName(i) ==
    /\ IsMember(i)
    /\ IsMember(EnumOf(i) + 1)
    /\ \A j \in (i + 1)..Len(children) :
         IsMember(j) => children[j].content # children[i].content

C14_EnumMemberValueAndDoc ==
    (kind = "Classdef" /\ pc = "built") =>
      \A i \in 1..Len(children) :
        (LastOfItsName(i) /\ Committed(i)) =>
           /\ Has(enumeration, children[i].content)
           /\ Get(enumeration, children[i].content) =
                [value |-> MemberValue(i), doc |-> MemberDoc(i)]

(***************************************************************************)
(* C15: for a line sequence with at least one non-blank line,              *)
(* parse_comment_docstring returns the reference result: with indent the   *)
(* least leading-whitespace length of the non-blank lines, a newline for   *)
(* each blank line and, for each other line, the line without its first    *)
(* indent characters and without trailing whitespace, followed by a space, *)
(* the whole trimmed at both ends; for the empty sequence it returns the   *)
(* empty string.                                                           *)
(***************************************************************************)
LeadingWhitespace(line) ==
    Cardinality({n \in 1..Len(line) : \A k \in 1..n : IsSpace(line[k])})

NonBlank(line) == \E k \in 1..Len(line) : ~IsSpace(line[k])

\* The text between the first and the last character that is no whitespace.
Trimmed(text) ==
    LET inked == {k \in 1..Len(text) : ~IsSpace(text[k])}
    IN  IF inked = {} THEN << >> ELSE SubSeq(text, Min(inked), Max(inked))

\* The text up to the last character that is no whitespace.
WithoutTrailing(text) ==
    LET inked == {k \in 1..Len(text) : ~IsSpace(text[k])}
    IN  IF inked = {} THEN << >> ELSE SubSeq(text, 1, Max(inked))

RECURSIVE Joined(_, _)
Joined(lines, indent) ==
    IF lines = << >> THEN << >>
    ELSE (IF NonBlank(Head(lines))
          THEN WithoutTrailing(SubSeq(Head(lines), indent + 1, Len(Head(lines)))) \o <<" ">>
          ELSE <<"\n">>)
         \o Joined(Tail(lines), indent)

ReferenceDocstring(lines) ==
    LET indents == {LeadingWhitespace(lines[i]) : i \in {j \in 1..Len(lines) : NonBlank(lines[j])}}
    IN  Trimmed(Joined(lines, Min(indents)))

SomeNonBlank(lines) == \E i \in 1..Len(lines) : NonBlank(lines[i])

C16_BlankLinesGiveEmptyDoc ==
    ( /\ kind = "Docstring" /\ pc \in {"returned", "error"}
      /\ docstring_lines # << >> /\ ~SomeNonBlank(docstring_lines) )
    => (error = "none" /\ doc = << >>)

(***************************************************************************)
(* C17: for a line sequence with at least one non-blank line and no blank  *)
(* line, assembling the assembled result again returns it unchanged.       *)
(***************************************************************************)
NoBlankLine(lines) == \A i \in 1..Len(lines) : NonBlank(lines[i])

C17_DedentIdempotent ==
    [][ ( /\ kind = "Docstring" /\ pc = "returned"
          /\ docstring_lines # << >> /\ NoBlankLine(docstring_lines)
          /\ docstring_lines' = << doc >> )
        => (pc' = "reparsed" /\ doc' = doc) ]_vars

C17_Witness ==
    /\ kind = "Docstring" /\ pc = "reparsed"
    /\ docstring_lines = << doc >>
    /\ doc = <<"a", " ", " ", "a", "a">>

(***************************************************************************)
(* C18 as stated: every constructor (Script, Function, Method, Classdef,   *)
(* Property) first checks the token of its node against the token of its   *)
(* object type and raises on a mismatch, before it reads a child or sets a *)
(* field.                                                                  *)
(***************************************************************************)
\* The token of the node each object type is built from.
ExpectedToken(k) ==
    CASE k = "Script"   -> "source.matlab"
      [] k = "Function" -> "meta.function.matlab"
      [] k = "Method"   -> "meta.function.matlab"
      [] k = "Classdef" -> "meta.class.matlab"
      [] k = "Property" -> "meta.assignment.definition.property.matlab"

\* The step raised ValueError and left the object as it was.
FailsFast ==
    /\ pc' = "error" /\ error' = "ValueError"
    /\ UNCHANGED << children, declaration, local_name, input, options, output,
                    docstring_lines, doc, class_attributes, class_members >>

C18_EveryConstructorRejectsWrongToken ==
    [][ (kind \in Kinds /\ pc = "new" /\ token # ExpectedToken(kind)) => FailsFast ]_vars

(***************************************************************************)
(* C18 as amended: Function, Method, Classdef and Property first check the *)
(* token of their node and raise ValueError on a mismatch, before reading  *)
(* a child or setting a field; Script expects no token and its first step  *)
(* accepts a node of any token.                                            *)
(***************************************************************************)
C18_ConstructorsButScriptRejectWrongToken ==
    [][ (kind \in Kinds /\ pc = "new") =>
          IF kind # "Script" /\ token # ExpectedToken(kind)
          THEN FailsFast
          ELSE pc' # "error" /\ error' = "none" ]_vars

C18_Witness ==
    /\ kind = "Property" /\ token = "meta.class.matlab"
    /\ pc = "error" /\ error = "ValueError"
    /\ doc = << >> /\ local_name = ""

(***************************************************************************)
(* C19: with parameter documentation enabled, Function.doc returns the     *)
(* assembled doc followed by one parameter entry per item of input, in the *)
(* order of input: `:param <name>:` for a placeholder and, for a Property, *)
(* its type, its name, its doc with newlines turned into spaces and a      *)
(* `Defaults to` suffix exactly when its default is not empty; with        *)
(* parameter documentation disabled it returns the assembled doc.          *)
(***************************************************************************)
DocumentedFunction == IsFunction /\ pc = "documented"

ParamMarker == <<":", "p", "a", "r", "a", "m", " ">>

DefaultsTo == <<" ", "D", "e", "f", "a", "u", "l", "t", "s", " ", "t", "o", " ">>

Flattened(text) == [i \in 1..Len(text) |-> IF text[i] = "\n" THEN " " ELSE text[i]]

\* The inline-code delimiter of the configured renderer.
Delimiter == IF config.render_plugin = "rst" THEN <<Backtick, Backtick>> ELSE <<Backtick>>

\* The entry of one item of input, without the line break before it.
ExpectedEntry(item) ==
    IF item.kind = "str"
    THEN ParamMarker \o item.name \o <<":">>
    ELSE ParamMarker \o item.type \o <<" ">> \o item.name \o <<":", " ">>
           \o Flattened(item.doc)
           \o (IF item.default = << >>
               THEN << >>
               ELSE DefaultsTo \o Delimiter \o item.default \o Delimiter)

\* What follows the assembled doc in the rendered text, line by line.
EntryLines == Split(Drop(rendered.text, Len(doc)), "\n")

C20_OptionsTableWheneverEnabled ==
    DocumentedFunction =>
      IF config.argument_options_table /\ options # << >>
      THEN /\ Len(rendered.tables) = 1
           /\ rendered.tables[1].table.headers = <<"name", "type", "doc", "default">>
           /\ Len(rendered.tables[1].table.rows) = Len(options)
           /\ \A i \in 1..Len(options) :
                rendered.tables[1].table.rows[i][1] = options[i].key
      ELSE rendered.tables = << >>

(***************************************************************************)
(* C21: for a Config loaded with the rst renderer, Function.doc and        *)
(* Classdef.doc write the double-backtick inline-code delimiter, underlined*)
(* table titles and rst tables; for a Config loaded with the md renderer   *)
(* they write the single-backtick delimiter, `## ` headings and github     *)
(* tables.                                                                 *)
(***************************************************************************)
DocumentedObject == kind \in {"Function", "Method", "Classdef"} /\ pc = "documented"

EndsWithDoubleTick(line) ==
    Len(line) >= 2 /\ line[Len(line)] = Backtick /\ line[Len(line) - 1] = Backtick

EndsWithSingleTick(line) ==
    Len(line) >= 2 /\ line[Len(line)] = Backtick /\ line[Len(line) - 1] # Backtick

\* The parameter entries that carry a default.
DefaultEntries ==
    IF IsFunction /\ config.argument_block_parameters
    THEN {EntryLines[i + 2] : i \in {j \in 1..Len(input) :
                                       /\ input[j].value.kind = "Property"
                                       /\ input[j].value.default # << >>}}
    ELSE {}

Underlined(heading) == heading[Len(heading) - 1] = "-"

Hashed(heading) == SubSeq(heading, 3, 5) = <<"#", "#", " ">>

LoadedWith(format) == DocumentedObject /\ config.render_plugin = load_renderer(format)

C21_RendererSelectsMarkup ==
    /\ LoadedWith("rst") =>
         /\ \A line \in DefaultEntries : EndsWithDoubleTick(line)
         /\ \A i \in 1..Len(rendered.tables) :
              /\ Underlined(rendered.tables[i].heading)
              /\ rendered.tables[i].table.tablefmt = "rst"
    /\ LoadedWith("md") =>
         /\ \A line \in DefaultEntries : EndsWithSingleTick(line)
         /\ \A i \in 1..Len(rendered.tables) :
              /\ Hashed(rendered.tables[i].heading)
              /\ rendered.tables[i].table.tablefmt = "github"

(***************************************************************************)
(* C22: the text returned by Classdef.doc begins with the class's own      *)
(* assembled doc; when class_docstring is merge and a method named like    *)
(* the class exists, that method's rendered doc follows it, after a blank  *)
(* line when both are non-empty, and otherwise nothing follows it; the     *)
(* enumeration table comes before the properties table.                    *)
(***************************************************************************)
HasConstructor == Has(methods, local_name)

\* What Function.doc returns for the method named like the class.
ConstructorText ==
    LET m == Get(methods, local_name)
    IN  m.doc \o (IF config.argument_block_parameters /\ m.input # << >>
                  THEN <<"\n">> \o Concat([i \in 1..Len(m.input) |->
                                            <<"\n">> \o ExpectedEntry(m.input[i].value)])
                  ELSE << >>)

TableHeaders == [i \in 1..Len(rendered.tables) |-> rendered.tables[i].table.headers]

EnumHeaders == <<"name", "value", "doc">>

PropertyHeaders == <<"name", "type", "doc", "default">>

C22_ClassDocKeepsOwnText ==
    Documented("Classdef") =>
      /\ Take(rendered.text, Len(doc)) = doc
      /\ Drop(rendered.text, Len(doc)) =
           IF config.class_docstring = "merge" /\ HasConstructor
           THEN (IF doc # << >> /\ ConstructorText # << >>
                 THEN <<"\n", "\n">> ELSE << >>) \o ConstructorText
           ELSE << >>
      /\ TableHeaders \in {<< >>, <<EnumHeaders>>, <<PropertyHeaders>>,
                           <<EnumHeaders, PropertyHeaders>>}
      /\ (enumeration # << >>) <=> (TableHeaders # << >> /\ TableHeaders[1] = EnumHeaders)

C22_Witness ==
    /\ Documented("Classdef")
    /\ config.class_docstring = "merge" /\ HasConstructor
    /\ doc # << >> /\ ConstructorText # << >>
    /\ Len(rendered.text) = Len(doc) + 2 + Len(ConstructorText)
    /\ enumeration # << >>

(***************************************************************************)
(* C23: load_config never aborts on a malformed option: for every option   *)
(* whose value is malformed it logs one config-error warning and the       *)
(* returned Config holds the option's declared default, and every other    *)
(* option holds its override if one is given and else the host-configured  *)
(* value, as validated.                                                    *)
(***************************************************************************)
EffectiveValue(name) ==
    IF \E i \in 1..Len(overrides) : overrides[i].key = name
    THEN (CHOOSE e \in {overrides[i] : i \in 1..Len(overrides)} : e.key = name).value
    ELSE app_config[name]

\* The values that are what the option's help asks for.
WellFormedOption(name) ==
    CASE name = "hidden_objects" -> EffectiveValue(name) = PyList("['hidden']")
      [] name = "docstring_parser_regexes" ->
           EffectiveValue(name) \in {PyList("[]"), PyList("[('a', 'rst')]")}
      [] OTHER -> TRUE

ExpectedOption(name) ==
    CASE name = "hidden_objects" -> [ty |-> "set", val |-> EffectiveValue(name).val]
      [] name = "docstring_parser_regexes" ->
           [ty |-> "compiled", val |-> EffectiveValue(name).val]
      [] name = "render_plugin" ->
           [ty |-> "type",
            val |-> IF EffectiveValue(name).val = "rst" THEN "RstRenderer"
                    ELSE "MystRenderer"]
      [] OTHER -> EffectiveValue(name)

MalformedOptions == {name \in DOMAIN ConfigDefaults : ~WellFormedOption(name)}

UnknownOverrides == {i \in 1..Len(overrides) : overrides[i].key \notin DOMAIN ConfigDefaults}

ConfigErrors == {i \in 1..Len(warnings) : warnings[i] = "config_error"}

LoadConfigResult ==
    (kind = "Directive" /\ pc = "loaded") =>
      /\ \A name \in DOMAIN ConfigDefaults :
           config[name] = IF WellFormedOption(name) THEN ExpectedOption(name)
                          ELSE ConfigDefaults[name]
      /\ Cardinality(ConfigErrors) =
           Cardinality(MalformedOptions) + (IF UnknownOverrides = {} THEN 0 ELSE 1)

LoadConfigRuns ==
    kind = "Directive" =>
      \/ pc \in {"fields", "loaded"}
      \/ error \notin {"TypeError", "ValidationError"}

C23_LoadConfigNeverAborts == LoadConfigRuns /\ LoadConfigResult

(***************************************************************************)
(* C24: when the lookup of the requested name returns nothing,             *)
(* FunctionRenderer.run logs one name-not-found warning and returns an     *)
(* empty node list, without loading the configuration, building an object  *)
(* or raising.                                                             *)
(***************************************************************************)
C24_AbsentNameIsSkipped ==
    (kind = "Directive" /\ workspace_node = "None") =>
      /\ pc = "returned" /\ error = "none"
      /\ warnings = << "missing" >>
      /\ nodes = << >>
      /\ config = NoConfig /\ values = << >> /\ field = 0
      /\ rendered = NoRendered

C24_Witness ==
    /\ kind = "Directive" /\ workspace_node = "None"
    /\ pc = "returned" /\ nodes = << >> /\ warnings = << "missing" >>

(***************************************************************************)
(* C25: Classdef.methods is keyed by method name and the last declaration  *)
(* wins: for every method name declared in a method block, methods[name]   *)
(* is the Method of the last declaration of that name, with the attributes *)
(* of that declaration's block and this Classdef as its owner; a repeated  *)
(* name is no error.                                                       *)
(***************************************************************************)
IsMethodChild(i) == children[i].tok = "meta.function.matlab"

MethodChildren == {i \in 1..Len(children) : kind = "Classdef" /\ IsMethodChild(i)}

DeclaredMethods == {children[i].content.name : i \in MethodChildren}

LastDeclaration(name) == Max({i \in MethodChildren : children[i].content.name = name})

\* The methods block a function stands in.
MethodBlockOf(i) == Max({j \in 1..i : children[j].tok = "meta.methods.matlab"})

\* The text of a help line without its marker and the blank after it.
HelpText(comment) == IF comment = << >> THEN << >> ELSE SubSeq(comment, 3, Len(comment))

C25_LastMethodDeclarationWins ==
    kind = "Classdef" =>
      /\ error = "none" =>
           /\ {methods[k].key : k \in 1..Len(methods)} = DeclaredMethods
           /\ \A k \in 1..Len(methods) :
                LET i == LastDeclaration(methods[k].key)
                    m == methods[k].value
                IN  /\ m.local_name = methods[k].key
                    /\ m.doc = HelpText(children[i].content.comment)
                    /\ m.attributes =
                         from_dict("MethodAttributes", children[MethodBlockOf(i)].mods).fields
                    /\ m.classdef = local_name
      /\ (error # "none" /\ Len(children) > 0 /\ IsMethodChild(Len(children))) =>
           children[Len(children)].content.inputs = << >>

C25_Witness ==
    /\ kind = "Classdef" /\ pc = "built" /\ error = "none"
    /\ \E i, j \in MethodChildren :
         /\ i < j
         /\ children[i].content.name = children[j].content.name
         /\ children[i].content.comment # children[j].content.comment
         /\ children[MethodBlockOf(i)].mods # children[MethodBlockOf(j)].mods
         /\ j = LastDeclaration(children[j].content.name)

(***************************************************************************)
(* C26: in an argument block and in a property block, the step that reads  *)
(* the next property declaration or the end of the block builds exactly    *)
(* one Property, from the pending declaration and the comment lines read   *)
(* since it, and builds none when no declaration is pending (comment lines *)
(* before the first declaration are attached to no property); a newly read *)
(* declaration is pending and not built yet.                               *)
(***************************************************************************)
InBlock == pc \in {"arguments", "properties"}

\* A step of a block's loop that reads a property declaration or the block's end.
BlockStep ==
    /\ InBlock
    /\ error' = "none"
    /\ Len(children') = Len(children) + 1
    /\ children'[Len(children')].tok \in
         {"meta.assignment.definition.property.matlab", "end"}

Pending == IF pc = "arguments" THEN arg ELSE prop

BlockAttributes == IF pc = "arguments" THEN attributes ELSE property_attributes

\* The comment lines read since the declaration at position id, without the marker.
TrailingComments(id) ==
    [k \in 1..(Len(children) - id) |->
       SubSeq(children[id + k].content, 2, Len(children[id + k].content))]

\* The Properties built from the declaration at position id, wherever stored.
BuiltFrom(i, o, u, p, id) ==
    {i[k].value : k \in Stored(i, id)} \cup {o[k].value : k \in Stored(o, id)}
      \cup {u[k].value : k \in Stored(u, id)} \cup {p[k].value : k \in Stored(p, id)}

C26_OnePropertyPerDeclaration ==
    [][ BlockStep =>
        /\ IF Pending = NoArg
           THEN /\ input' = input /\ options' = options /\ output' = output
                /\ properties' = properties
           ELSE LET built    == BuiltFrom(input', options', output', properties', Pending.id)
                    expected == Property(Pending, BlockAttributes,
                                         TrailingComments(Pending.id))
                IN  /\ BuiltFrom(input, options, output, properties, Pending.id) = {}
                    /\ Cardinality(built) = 1
                    /\ \A b \in built :
                         /\ b.doc = expected.doc /\ b.type = expected.type
                         /\ b.default = expected.default
                         /\ b.attributes = expected.attributes
        /\ BuiltFrom(input', options', output', properties', Len(children')) = {}
        /\ children'[Len(children')].tok = "end" => ~InBlock'
      ]_vars

C26_Witness ==
    /\ IsFunction /\ error = "none" /\ pc = "children"
    /\ \E i, j \in AddedIndices :
         /\ i + 1 < j
         /\ \A k \in (i + 1)..(j - 1) : children[k].tok = "comment.line.percentage.matlab"
         /\ \E b \in BuiltFrom(input, options, output, properties, i) : b.doc = <<"x">>
         /\ \E b \in BuiltFrom(input, options, output, properties, j) :
              "x" \notin {b.doc[k] : k \in 1..Len(b.doc)}


(***************************************************************************)
(* C27: in the enum-block scan the pair committed for a member depends     *)
(* only on the tokens between its declaration and the next member          *)
(* declaration or the block end: its doc is assembled from its own         *)
(* trailing comment lines alone (a comment line before the first member    *)
(* belongs to no member) and its value text is that of its own value       *)
(* token, empty when it has none.                                          *)
(***************************************************************************)
\* Member i is the last declaration of its name among the tokens read.
DeclaredLast(i) ==
    /\ IsMember(i)
    /\ \A j \in (i + 1)..Len(children) :
         IsMember(j) => children[j].content # children[i].content

\* The text of the member's own value token, as the scan stores it.
OwnValueText(i) ==
    LET parens == {j \in MemberTokens(i) : children[j].tok = "meta.parens.matlab"}
    IN  IF parens = {} THEN << >> ELSE children[Max(parens)].content

C27_EnumMemberOwnTokensOnly ==
    (kind = "Classdef" /\ pc = "built") =>
      \A i \in 1..Len(children) :
        (DeclaredLast(i) /\ Committed(i)) =>
           /\ Has(enumeration, children[i].content)
           /\ Get(enumeration, children[i].content).doc = MemberDoc(i)
           /\ Get(enumeration, children[i].content).value = OwnValueText(i)

\* The same with the doc alone: the value text plays no part in the failure.
C27_DocOnly ==
    (kind = "Classdef" /\ pc = "built") =>
      \A i \in 1..Len(children) :
        (DeclaredLast(i) /\ Committed(i)) =>
           Get(enumeration, children[i].content).doc = MemberDoc(i)

\* The same for enum blocks that begin with a member declaration.
C27_AfterFirstMember ==
    (kind = "Classdef" /\ pc = "built") =>
      \A i \in 1..Len(children) :
        (DeclaredLast(i) /\ Committed(i) /\ IsMember(EnumOf(i) + 1)) =>
           /\ Get(enumeration, children[i].content).doc = MemberDoc(i)
           /\ Get(enumeration, children[i].content).value = OwnValueText(i)


(***************************************************************************)
(* C28: classifying a non-Output property `p.f` while `p` is not a key of  *)
(* input (never declared, or removed by an earlier `p.g`) raises no error, *)
(* leaves input as it is and registers the Property, renamed `f`, in       *)
(* options under `f`.                                                      *)
(***************************************************************************)
C28_AbsentRootIsSilentNoOp ==
    [][ ( /\ AddStep
          /\ ~attributes.Output
          /\ IsDotted(arg.content)
          /\ ~Has(input, RootOf(arg.content)) ) =>
        LET f == FieldOf(arg.content)
        IN  /\ error' = "none"
            /\ input' = input
            /\ output' = output
            /\ Has(options', f)
            /\ Get(options', f).kind = "Property"
            /\ Get(options', f).element = arg.id
            /\ Get(options', f).name = f ]_vars

\* Two dotted arguments of one root have been classified: the second found
\* the root already removed.
C28_Witness ==
    /\ error = "none"
    /\ \E i, j \in DottedInputArgs :
         /\ i < j
         /\ RootOf(children[i].content) = RootOf(children[j].content)
         /\ RootOf(children[i].content) \in Range(declaration.inputs)
         /\ ~Has(input, RootOf(children[j].content))
         /\ Has(options, FieldOf(children[j].content))
         /\ Get(options, FieldOf(children[j].content)).element = j

\* A dotted argument whose root was never declared has been classified.
C28_WitnessUndeclared ==
    /\ error = "none"
    /\ \E j \in DottedInputArgs :
         /\ RootOf(children[j].content) \notin Range(declaration.inputs)
         /\ Touches(RootOf(children[j].content)) = {j}
         /\ Has(options, FieldOf(children[j].content))
         /\ Get(options, FieldOf(children[j].content)).element = j


(***************************************************************************)
(* C29: each modifier-list scan of the Classdef builder (class             *)
(* declaration, properties block, methods block) hands the attribute       *)
(* parser a raw map whose keys are exactly the modifier names of the list, *)
(* a bare flag mapped to true and a `name=value` pair to the text of its   *)
(* value, whatever the position of the modifier in the list and the        *)
(* separators between the modifiers.                                       *)
(***************************************************************************)
\* The positions of the modifier names in a list.
NamesAt(l) == {i \in 1..Len(l) : l[i].tok = "storage.modifier"}

\* The value of the modifier at position i: the text after its `=`, or true.
ValueAt(l, i) ==
    IF i + 2 <= Len(l) /\ l[i + 1].tok = "keyword.operator.assignment.matlab"
    THEN PyStr(l[i + 2].content)
    ELSE PyBool(TRUE)

ExpectedRaw(l) == {[key |-> l[i].content, value |-> ValueAt(l, i)] : i \in NamesAt(l)}

ExactlyTheList(raw, l) ==
    /\ Range(raw) = ExpectedRaw(l)
    /\ Len(raw) = Cardinality(ExpectedRaw(l))

\* The class declaration has been scanned.
ClassDeclarationScanned ==
    kind = "Classdef" /\ cls = "ClassdefAttributes" /\ pc # "declaration"

C29_ClassDeclarationScan ==
    ClassDeclarationScanned => ExactlyTheList(settings, declaration.modifiers)

C29_PropertyBlockScan ==
    kind = "Classdef" =>
      \A i \in 1..Len(children) :
        children[i].tok = "meta.properties.matlab" =>
          ExactlyTheList(children[i].mods, children[i].content)

C29_MethodBlockScan ==
    kind = "Classdef" =>
      \A i \in 1..Len(children) :
        children[i].tok = "meta.methods.matlab" =>
          ExactlyTheList(children[i].mods, children[i].content)

C29_ModifierScansGiveExactRawMap ==
    /\ C29_ClassDeclarationScan
    /\ C29_PropertyBlockScan
    /\ C29_MethodBlockScan

\* The method-block scan on the lists whose values are access levels or absent.
C29_MethodBlockScanOfAccessValues ==
    kind = "Classdef" =>
      \A i \in 1..Len(children) :
        ( /\ children[i].tok = "meta.methods.matlab"
          /\ \A k \in 1..Len(children[i].content) :
               children[i].content[k].tok # "value" ) =>
          ExactlyTheList(children[i].mods, children[i].content)


(***************************************************************************)
(* C30: Method construction completes without error for every method      *)
(* declaration, one whose input is empty included (no parameter declared,  *)
(* or every placeholder removed by dotted names): the removal of the first *)
(* input never fails.                                                      *)
(***************************************************************************)
C30_ElisionNeverFails ==
    [][ (kind = "Method" /\ pc = "elide") => (pc' = "built" /\ error' = "none") ]_vars

\* The same for the methods constructed inside a methods block of a class.
C30_BlockMethodsNeverFail ==
    [][ (kind = "Classdef" /\ pc = "methods") => error' # "KeyError" ]_vars

\* The removal on a non-empty input mapping.
C30_ElisionOfNonEmptyInput ==
    [][ (kind = "Method" /\ pc = "elide" /\ input # << >>) =>
          (pc' = "built" /\ error' = "none") ]_vars

====
